---------------------------- MODULE Spec2Model ----------------------------
(***************************************************************************)
(* A model of the ODIN server: the trajectory engine                       *)
(* (server/trajectory-engine.ts), the storage layer (server/storage.ts)    *)
(* and the trajectory routes (server/routes.ts).                           *)
(*                                                                         *)
(* The engine computes with IEEE-754 doubles.  TLC has 32-bit integers     *)
(* only, so a JavaScript number is modelled as a decimal floating-point    *)
(* value  s * (hi * 10^8 + lo) * 10^e : a sign, a sixteen-digit mantissa   *)
(* held in two eight-digit limbs, and an exponent; plus NaN and the two    *)
(* infinities.  Every arithmetic operator truncates its result to sixteen  *)
(* significant digits (a double carries 15.95), so a modelled quantity     *)
(* agrees with the double the code computes to about fourteen digits.      *)
(* The exponent is an unbounded integer: overflow to infinity and          *)
(* underflow to zero are not modelled, and -0 is not told from +0.         *)
(*                                                                         *)
(* A local value of the code that is used more than once is a parameter    *)
(* of the operator that continues the computation, so each function of     *)
(* the code reads here as a chain of operators, one per group of locals.   *)
(***************************************************************************)
EXTENDS Integers, Sequences, FiniteSets, TLC

(***************************************************************************)
(* JavaScript numbers                                                      *)
(***************************************************************************)
B4 == 10^4
B7 == 10^7
B8 == 10^8

Abs(i) == IF i < 0 THEN -i ELSE i
Sgn(i) == IF i < 0 THEN -1 ELSE IF i > 0 THEN 1 ELSE 0
Min2(i, j) == IF i <= j THEN i ELSE j

Mk(s, hi, lo, e) == [k |-> "num", s |-> s, hi |-> hi, lo |-> lo, e |-> e]
NaN == [k |-> "nan", s |-> 0, hi |-> 0, lo |-> 0, e |-> 0]
PInf == [k |-> "inf", s |-> 1, hi |-> 0, lo |-> 0, e |-> 0]
NInf == [k |-> "inf", s |-> -1, hi |-> 0, lo |-> 0, e |-> 0]
Zero == Mk(0, 0, 0, 0)
One == Mk(1, B7, 0, -15)
Two == Mk(1, 2 * B7, 0, -15)
Three == Mk(1, 3 * B7, 0, -15)
Half == Mk(1, 5 * B7, 0, -16)

IsNaN(a) == a.k = "nan"
IsInf(a) == a.k = "inf"
\* isFinite(x), and isNaN(x)
isFinite(a) == a.k = "num"
isNaN(a) == a.k = "nan"

\* The number of digits a positive limb below 10^7 lacks of eight.
LeadShift(hi) ==
  IF hi >= B4
    THEN (IF hi >= 10^6 THEN 1 ELSE IF hi >= 10^5 THEN 2 ELSE 3)
    ELSE (IF hi >= 100 THEN (IF hi >= 1000 THEN 4 ELSE 5)
          ELSE IF hi >= 10 THEN 6 ELSE 7)

\* The mantissa (hi, lo) moved k digits to the left.
NormLeft(s, hi, lo, e, k) ==
  Mk(s, hi * (10^k) + (lo \div (10^(8 - k))), (lo % (10^(8 - k))) * (10^k), e - k)

\* The normalised number s * (hi * 10^8 + lo) * 10^e, for 0 <= hi < 10^9
\* and 0 <= lo < 10^8: its first limb has eight digits, or it is zero.
Norm(s, hi, lo, e) ==
  IF s = 0 \/ (hi = 0 /\ lo = 0) THEN Zero
  ELSE IF hi >= B8 THEN Mk(s, hi \div 10, (hi % 10) * B7 + (lo \div 10), e + 1)
  ELSE IF hi >= B7 THEN Mk(s, hi, lo, e)
  ELSE IF hi = 0
    THEN (IF lo >= B7 THEN Mk(s, lo, 0, e - 8)
          ELSE NormLeft(s, lo, 0, e - 8, LeadShift(lo)))
  ELSE NormLeft(s, hi, lo, e, LeadShift(hi))

\* The integer i, the decimal literal m * 10^e, and the long literal
\* (hi * 10^8 + lo) * 10^e.
Num(i) == Norm(Sgn(i), Abs(i) \div B8, Abs(i) % B8, 0)
Dec(m, e) == Norm(Sgn(m), Abs(m) \div B8, Abs(m) % B8, e)
Dec2(hi, lo, e) == Norm(1, hi, lo, e)

FSign(a) == a.s
FNeg(a) == [a EXCEPT !.s = -a.s]
\* Math.abs
MathAbs(a) == [a EXCEPT !.s = Abs(a.s)]
\* a * 10^n, exactly.
Scale10(a, n) == IF a.k = "num" /\ a.s # 0 THEN [a EXCEPT !.e = @ + n] ELSE a
\* v with the sign s of another number.
WithSign(s, v) == IF s < 0 THEN FNeg(v) ELSE v

\* The mantissa (hi, lo) shifted right by d decimal digits.
ShiftR(hi, lo, d) ==
  IF d = 0 THEN <<hi, lo>>
  ELSE IF d < 8 THEN <<hi \div (10^d), (hi % (10^d)) * (10^(8 - d)) + (lo \div (10^d))>>
  ELSE IF d < 16 THEN <<0, hi \div (10^(d - 8))>>
  ELSE <<0, 0>>

\* (h1, l1) <= (h2, l2), as two-limb integers.
LimbLe(h1, l1, h2, l2) == h1 < h2 \/ (h1 = h2 /\ l1 <= l2)

\* The number sg * (hi * 10^8 + lo) * 10^e for a two-limb value of sign sg
\* whose limbs carry that sign.
NormMag(sg, hi, lo, e) == Norm(sg, sg * hi + ((sg * lo) \div B8), (sg * lo) % B8, e)
NormSigned(hi, lo, e) ==
  NormMag(IF hi < 0 \/ (hi = 0 /\ lo < 0) THEN -1 ELSE 1, hi, lo, e)

\* big + small for |big| of the larger exponent; sh is the mantissa of
\* small aligned to it.
AddAligned(big, ss, sh) ==
  NormSigned(big.s * big.hi + ss * sh[1], big.s * big.lo + ss * sh[2], big.e)
AddOrdered(big, small) ==
  AddAligned(big, small.s, ShiftR(small.hi, small.lo, big.e - small.e))

\* a + b
FAdd(a, b) ==
  IF IsNaN(a) \/ IsNaN(b) THEN NaN
  ELSE IF IsInf(a) THEN (IF IsInf(b) /\ b.s # a.s THEN NaN ELSE a)
  ELSE IF IsInf(b) THEN b
  ELSE IF a.s = 0 THEN b
  ELSE IF b.s = 0 THEN a
  ELSE AddOrdered(IF a.e >= b.e THEN a ELSE b, IF a.e >= b.e THEN b ELSE a)

\* a - b
FSub(a, b) == FAdd(a, FNeg(b))

\* The four limbs of four digits of a mantissa, the lowest first.
Limbs(a) == <<a.lo % B4, a.lo \div B4, a.hi % B4, a.hi \div B4>>

\* The product of two mantissas, column by column (p0 .. p6 with their
\* carries), cut to its leading sixteen digits.
MulTop(s, e, p6, l5, l4, l3) ==
  IF p6 >= B7 THEN Mk(s, p6, l5 * B4 + l4, e + 16)
  ELSE Mk(s, p6 * 10 + (l5 \div 1000),
          (l5 % 1000) * 100000 + l4 * 10 + (l3 \div 1000), e + 15)
Mul6(s, e, a, b, p5, l4, l3) ==
  MulTop(s, e, a[4] * b[4] + (p5 \div B4), p5 % B4, l4, l3)
Mul5(s, e, a, b, p4, l3) ==
  Mul6(s, e, a, b, a[3] * b[4] + a[4] * b[3] + (p4 \div B4), p4 % B4, l3)
Mul4(s, e, a, b, p3) ==
  Mul5(s, e, a, b, a[2] * b[4] + a[3] * b[3] + a[4] * b[2] + (p3 \div B4), p3 % B4)
Mul3(s, e, a, b, p2) ==
  Mul4(s, e, a, b,
       a[1] * b[4] + a[2] * b[3] + a[3] * b[2] + a[4] * b[1] + (p2 \div B4))
Mul2(s, e, a, b, p1) ==
  Mul3(s, e, a, b, a[1] * b[3] + a[2] * b[2] + a[3] * b[1] + (p1 \div B4))
Mul1(s, e, a, b, p0) ==
  Mul2(s, e, a, b, a[1] * b[2] + a[2] * b[1] + (p0 \div B4))
MulLimbs(s, e, a, b) == Mul1(s, e, a, b, a[1] * b[1])

\* a * b
FMul(a, b) ==
  IF IsNaN(a) \/ IsNaN(b) THEN NaN
  ELSE IF IsInf(a) \/ IsInf(b)
    THEN (IF a.s = 0 \/ b.s = 0 THEN NaN ELSE IF a.s * b.s > 0 THEN PInf ELSE NInf)
  ELSE IF a.s = 0 \/ b.s = 0 THEN Zero
  ELSE MulLimbs(a.s * b.s, a.e + b.e, Limbs(a), Limbs(b))

RECURSIVE DigitFit(_, _, _, _, _)
\* The largest digit d <= est with d * (bh, bl) <= (rh, rl).
DigitFit(est, rh, rl, bh, bl) ==
  IF LimbLe(est * bh + ((est * bl) \div B8), (est * bl) % B8, rh, rl) THEN est
  ELSE DigitFit(est - 1, rh, rl, bh, bl)

RECURSIVE LongDiv(_, _, _, _, _, _, _)
\* Long division: the quotient (qh, ql), never negative, gains the digit d
\* of the running remainder (th, tl) over the divisor (bh, bl), then n more
\* digits.
LongDivTake(qh, ql, th, tl, bh, bl, n, d) ==
  LongDiv(qh * 10 + ((ql * 10 + d) \div B8), (ql * 10 + d) % B8,
          th - d * bh - ((d * bl) \div B8) + ((tl - ((d * bl) % B8)) \div B8),
          (tl - ((d * bl) % B8)) % B8,
          bh, bl, n)
LongDivDigit(qh, ql, th, tl, bh, bl, n) ==
  LongDivTake(qh, ql, th, tl, bh, bl, n,
              DigitFit(Min2(9, th \div bh), th, tl, bh, bl))
LongDiv(qh, ql, rh, rl, bh, bl, n) ==
  IF n = 0 \/ qh < 0 THEN <<qh, ql>>
  ELSE LongDivDigit(qh, ql, rh * 10 + (rl \div B7), (rl % B7) * 10, bh, bl, n - 1)

\* The quotient q of two mantissas as a number.
Quotient(s, q, e) == Norm(s, q[1], q[2], e)

\* a / b: long division of the mantissas, cut to sixteen digits.
FDiv(a, b) ==
  IF IsNaN(a) \/ IsNaN(b) THEN NaN
  ELSE IF IsInf(a)
    THEN (IF IsInf(b) THEN NaN
          ELSE IF a.s * (IF b.s < 0 THEN -1 ELSE 1) > 0 THEN PInf ELSE NInf)
  ELSE IF IsInf(b) THEN Zero
  ELSE IF b.s = 0
    THEN (IF a.s = 0 THEN NaN ELSE IF a.s > 0 THEN PInf ELSE NInf)
  ELSE IF a.s = 0 THEN Zero
  ELSE Quotient(a.s * b.s, LongDivDigit(0, 0, a.hi, a.lo, b.hi, b.lo, 16),
                a.e - b.e - 16)

\* The order of two numbers: -1, 0 or 1, and 2 when either is NaN.
FCmp(a, b) ==
  IF IsNaN(a) \/ IsNaN(b) THEN 2
  ELSE IF IsInf(a) \/ IsInf(b)
    THEN (IF IsInf(a) /\ IsInf(b) THEN Sgn(a.s - b.s)
          ELSE IF IsInf(a) THEN a.s ELSE -b.s)
  ELSE IF a.s # b.s THEN Sgn(a.s - b.s)
  ELSE IF a.s = 0 THEN 0
  ELSE IF a.e # b.e THEN a.s * Sgn(a.e - b.e)
  ELSE IF a.hi # b.hi THEN a.s * Sgn(a.hi - b.hi)
  ELSE a.s * Sgn(a.lo - b.lo)

\* a < b, a <= b, a > b, a >= b: all false when either is NaN.
FLt(a, b) == FCmp(a, b) = -1
FLe(a, b) == FCmp(a, b) \in {-1, 0}
FGt(a, b) == FCmp(a, b) = 1
FGe(a, b) == FCmp(a, b) \in {0, 1}

\* Math.max, Math.min, Math.sign
MathMax(a, b) == IF IsNaN(a) \/ IsNaN(b) THEN NaN ELSE IF FCmp(a, b) >= 0 THEN a ELSE b
MathMin(a, b) == IF IsNaN(a) \/ IsNaN(b) THEN NaN ELSE IF FCmp(a, b) <= 0 THEN a ELSE b
MathSign(a) == IF IsNaN(a) THEN NaN ELSE Mk(a.s, Abs(a.s) * B7, 0, -15)

RECURSIVE ISqrtIn(_, _, _)
\* The largest r in lo..hi with r * r <= n.
ISqrtIn(n, lo, hi) ==
  IF lo >= hi THEN lo
  ELSE IF ((lo + hi + 1) \div 2) * ((lo + hi + 1) \div 2) <= n
    THEN ISqrtIn(n, (lo + hi + 1) \div 2, hi)
    ELSE ISqrtIn(n, lo, ((lo + hi + 1) \div 2) - 1)

RECURSIVE SqrtNewton(_, _, _)
\* n Newton steps y := (y + a / y) / 2.
SqrtNewton(a, y, n) ==
  IF n = 0 \/ y.s = 0 THEN y ELSE SqrtNewton(a, FMul(Half, FAdd(y, FDiv(a, y))), n - 1)

\* Math.sqrt: the integer square root of the leading digits, then three
\* Newton steps.
MathSqrt(a) ==
  IF IsNaN(a) THEN NaN
  ELSE IF IsInf(a) THEN (IF a.s > 0 THEN PInf ELSE NaN)
  ELSE IF a.s < 0 THEN NaN
  ELSE IF a.s = 0 THEN Zero
  ELSE SqrtNewton(a,
         Norm(1, 0,
              ISqrtIn(IF (a.e + 8) % 2 # 0 THEN a.hi * 10 + (a.lo \div B7) ELSE a.hi,
                      0, 31622),
              (IF (a.e + 8) % 2 # 0 THEN a.e + 7 ELSE a.e + 8) \div 2),
         3)

RECURSIVE FPowInt(_, _)
\* a to the non-negative integer power n.
FPowInt(a, n) == IF n = 0 THEN One ELSE FMul(a, FPowInt(a, n - 1))

RECURSIVE RootNewton(_, _, _, _)
\* Newton's iteration for the n-th root of a, from above, until it stops
\* decreasing (at most left steps).
RootNext(a, n, y, next, left) ==
  IF left = 0 \/ ~FLt(next, y) THEN y ELSE RootNewton(a, n, next, left - 1)
RootNewton(a, n, y, left) ==
  RootNext(a, n, y,
           FDiv(FAdd(FMul(Num(n - 1), y), FDiv(a, FPowInt(y, n - 1))), Num(n)),
           left)

\* The n-th root of a (Math.pow(a, 1/n)), NaN for a < 0.
FRoot(a, n) ==
  IF IsNaN(a) THEN NaN
  ELSE IF IsInf(a) THEN (IF a.s > 0 THEN PInf ELSE NaN)
  ELSE IF a.s < 0 THEN NaN
  ELSE IF a.s = 0 THEN Zero
  ELSE RootNewton(a, n, Norm(1, 0, 1, -((-(a.e + 16)) \div n)), 200)

Ln2 == Mk(1, 69314718, 5599453, -16)
Ln10 == Mk(1, 23025850, 92994046, -15)
MathPI == Mk(1, 31415926, 53589793, -15)

RECURSIVE AtanhSeries(_, _, _, _, _)
\* sum over k of z^(2k+1) / (2k+1), until a term no longer changes it.
AtanhNext(pw, z2, k, acc, next, left) ==
  IF left = 0 \/ next = acc THEN acc
  ELSE AtanhSeries(FMul(pw, z2), z2, k + 1, next, left - 1)
AtanhSeries(pw, z2, k, acc, left) ==
  AtanhNext(pw, z2, k, acc, FAdd(acc, FDiv(pw, Num(2 * k + 1))), left)

\* twos * ln 2 + 2 atanh(z)
LnFromZ(twos, z) ==
  FAdd(FMul(Num(twos), Ln2), FMul(Two, AtanhSeries(z, FMul(z, z), 0, Zero, 40)))

RECURSIVE LnReduced(_, _)
\* ln of u in [1, 10): halve u into [1, 2), then 2 * atanh((u-1)/(u+1)).
LnReduced(u, twos) ==
  IF FCmp(u, Two) >= 0 THEN LnReduced(FMul(u, Half), twos + 1)
  ELSE LnFromZ(twos, FDiv(FSub(u, One), FAdd(u, One)))

\* Math.log
MathLog(a) ==
  IF IsNaN(a) THEN NaN
  ELSE IF IsInf(a) THEN (IF a.s > 0 THEN PInf ELSE NaN)
  ELSE IF a.s < 0 THEN NaN
  ELSE IF a.s = 0 THEN NInf
  ELSE FAdd(FMul(Num(a.e + 15), Ln10), LnReduced([a EXCEPT !.e = -15], 0))

\* The integer part of a finite number of magnitude below 2^31.
FTrunc(a) ==
  IF a.s = 0 \/ a.e < -15 THEN 0
  ELSE IF a.e < -8 THEN a.s * (a.hi \div (10^(-8 - a.e)))
  ELSE a.s * (a.hi * (10^(a.e + 8)) + (a.lo \div (10^(-a.e))))

RECURSIVE ExpSeries(_, _, _, _, _)
\* sum over k of r^k / k!, until a term no longer changes it.
ExpNext(term, r, k, acc, next, left) ==
  IF left = 0 \/ next = acc THEN acc
  ELSE ExpSeries(FDiv(FMul(term, r), Num(k + 1)), r, k + 1, next, left - 1)
ExpSeries(term, r, k, acc, left) == ExpNext(term, r, k, acc, FAdd(acc, term), left)

Sq(x) == FMul(x, x)

\* exp(a) = 10^n * exp(r) with r = a - n ln 10, and exp(r) = exp(r/8)^8.
ExpScaled(a, n) ==
  Scale10(Sq(Sq(Sq(ExpSeries(One, FDiv(FSub(a, FMul(Num(n), Ln10)), Num(8)),
                             0, Zero, 40)))),
          n)

\* Math.exp
MathExp(a) ==
  IF IsNaN(a) THEN NaN
  ELSE IF IsInf(a) THEN (IF a.s > 0 THEN PInf ELSE Zero)
  ELSE IF a.s = 0 THEN One
  ELSE ExpScaled(a, FTrunc(FDiv(a, Ln10)))

RECURSIVE AsinSeries(_, _, _, _, _, _)
\* asin (sgn = 1) or asinh (sgn = -1) of a small argument u: the sum of
\* t(0) = u, t(k+1) = sgn * t(k) * u^2 * (2k+1)^2 / ((2k+2)(2k+3)).
AsinNext(term, u2, sgn, k, acc, next, left) ==
  IF left = 0 \/ next = acc THEN acc
  ELSE AsinSeries(
         FDiv(FMul(FMul(term, u2), Num(sgn * (2 * k + 1) * (2 * k + 1))),
              Num((2 * k + 2) * (2 * k + 3))),
         u2, sgn, k + 1, next, left - 1)
AsinSeries(term, u2, sgn, k, acc, left) ==
  AsinNext(term, u2, sgn, k, acc, FAdd(acc, term), left)

\* asin of u in [0, 1]: the series below 1/2, and above it
\* pi/2 - 2 asin(sqrt((1 - u) / 2)).
AsinSmall(w) == AsinSeries(w, FMul(w, w), 1, 0, Zero, 60)
AsinAbs(u) ==
  IF FCmp(u, Half) <= 0 THEN AsinSmall(u)
  ELSE FSub(FMul(Half, MathPI),
            FMul(Two, AsinSmall(MathSqrt(FMul(Half, FSub(One, u))))))

\* Math.asin: NaN outside [-1, 1].
MathAsin(a) ==
  IF IsNaN(a) \/ IsInf(a) THEN NaN
  ELSE IF FCmp(MathAbs(a), One) = 1 THEN NaN
  ELSE WithSign(a.s, AsinAbs(MathAbs(a)))

\* asinh of u >= 0: the series below 1/2, ln(u + sqrt(u^2 + 1)) above.
AsinhAbs(u) ==
  IF FCmp(u, Half) <= 0 THEN AsinSeries(u, FMul(u, u), -1, 0, Zero, 60)
  ELSE MathLog(FAdd(u, MathSqrt(FAdd(FMul(u, u), One))))

\* Math.asinh
MathAsinh(a) ==
  IF IsNaN(a) THEN NaN
  ELSE IF IsInf(a) THEN a
  ELSE WithSign(a.s, AsinhAbs(MathAbs(a)))

\* Math.floor
FloorOf(a, t) == IF a.s < 0 /\ t # a THEN FSub(t, One) ELSE t
Truncated(s, sh) == Norm(s, sh[1], sh[2], 0)
MathFloor(a) ==
  IF ~isFinite(a) \/ a.s = 0 \/ a.e >= 0 THEN a
  ELSE FloorOf(a, Truncated(a.s, ShiftR(a.hi, a.lo, -a.e)))

\* Math.round(x) is floor(x + 0.5).
MathRound(a) == MathFloor(FAdd(a, Half))

\* Number(x.toFixed(n)): the nearest multiple of 10^-n, ties away from zero.
toFixed(a, n) ==
  IF ~isFinite(a) THEN a
  ELSE WithSign(a.s, Scale10(MathFloor(FAdd(Scale10(MathAbs(a), n), Half)), -n))

(***************************************************************************)
(* trajectory-engine.ts: UnitConverter, CONSTANTS, Vector3D                *)
(*                                                                         *)
(* A function that can throw is modelled by a value whose field "thrown"   *)
(* names the Error it throws, or is "none" when it returns.                *)
(***************************************************************************)
SECONDS_PER_HOUR == Num(3600)
HOURS_PER_SECOND == FDiv(One, Num(3600))
MS_PER_KMS == Num(1000)

\* UnitConverter.hoursToSeconds and secondsToHours: the Error thrown, and
\* the value returned.
timeConversionThrown(t) ==
  IF FLt(t, Zero) THEN "TimeNegative"
  ELSE IF ~isFinite(t) THEN "TimeNotFinite"
  ELSE "none"
hoursToSeconds(hours) == FMul(hours, SECONDS_PER_HOUR)
secondsToHours(seconds) == FMul(seconds, HOURS_PER_SECOND)

\* UnitConverter.kmPerSecToMPerSec
kmPerSecToMPerSecThrown(kmPerSec) ==
  IF ~isFinite(kmPerSec) THEN "VelocityNotFinite" ELSE "none"
kmPerSecToMPerSec(kmPerSec) == FMul(kmPerSec, MS_PER_KMS)

\* A variant whose lower bound is exclusive.
validateMissionTimeExclusive(hours) ==
  IF FLe(hours, Dec(1, -1)) THEN "MissionTimeTooShort"
  ELSE IF FGt(hours, Num(8760)) THEN "MissionTimeTooLong"
  ELSE "none"

\* UnitConverter.validateMissionTime
validateMissionTime(hours) ==
  IF FLt(hours, Dec(1, -1)) THEN "MissionTimeTooShort"
  ELSE IF FGt(hours, Num(8760)) THEN "MissionTimeTooLong"
  ELSE "none"

\* UnitConverter.validateDeltaV
validateDeltaV(deltaV_kms) ==
  IF FLt(deltaV_kms, Zero) THEN "DeltaVNegative"
  ELSE IF FGt(deltaV_kms, Num(20)) THEN "DeltaVTooLarge"
  ELSE "none"

MU_EARTH == Dec2(39, 86004418, -4)
MU_MOON == Dec(49027779, -4)
EARTH_RADIUS == Num(6371)
MOON_RADIUS == Num(1737)
EARTH_MOON_DISTANCE == Num(384400)
EARTH_LOW_ORBIT == Num(200)
MOON_ORBIT_ALT == Num(100)
SPECIFIC_IMPULSE == Num(450)
SPACECRAFT_DRY_MASS == Num(5000)

Vector3D(x, y, z) == [x |-> x, y |-> y, z |-> z]
VecAdd(a, b) == Vector3D(FAdd(a.x, b.x), FAdd(a.y, b.y), FAdd(a.z, b.z))
VecSubtract(a, b) == Vector3D(FSub(a.x, b.x), FSub(a.y, b.y), FSub(a.z, b.z))
VecMultiply(v, scalar) ==
  Vector3D(FMul(v.x, scalar), FMul(v.y, scalar), FMul(v.z, scalar))
VecDot(a, b) == FAdd(FAdd(FMul(a.x, b.x), FMul(a.y, b.y)), FMul(a.z, b.z))
VecCross(a, b) ==
  Vector3D(FSub(FMul(a.y, b.z), FMul(a.z, b.y)),
           FSub(FMul(a.z, b.x), FMul(a.x, b.z)),
           FSub(FMul(a.x, b.y), FMul(a.y, b.x)))
magnitude(v) ==
  MathSqrt(FAdd(FAdd(FMul(v.x, v.x), FMul(v.y, v.y)), FMul(v.z, v.z)))

(***************************************************************************)
(* trajectory-engine.ts: IzzoSolver                                        *)
(***************************************************************************)
\* Math.pow(x, 1.5) and Math.pow(x, 2.5), as x * sqrt(x) and x * x * sqrt(x).
Pow15(x) == FMul(x, MathSqrt(x))
Pow25(x) == FMul(FMul(x, x), MathSqrt(x))

computeMinimumEnergyTime(lambda) ==
  FMul(FDiv(One, Three), FSub(One, FMul(FMul(lambda, lambda), lambda)))

calculateY(x, lambda) ==
  MathSqrt(FSub(One, FMul(FMul(lambda, lambda), FSub(One, FMul(x, x)))))

\* Math.asin(sy) when sy <= 1, and Math.PI - Math.asin(sy) otherwise.
AsinOrSupplement(small, as) == IF small THEN as ELSE FSub(MathPI, as)

\* calculateTime: the hyperbolic branch (x < 0) for neg_x = -x and
\* sy = sqrt(-x) * y, and the elliptic branch (x > 0) for sy = sqrt(x) * y.
TimeHyperbolic(neg_x, sy) == FDiv(FAdd(MathAsinh(sy), sy), Pow15(neg_x))
TimeElliptic(x, sy) ==
  FDiv(FAdd(AsinOrSupplement(FLe(sy, One), MathAsin(sy)), sy), Pow15(x))

calculateTime(x, y) ==
  IF FLt(x, Zero) THEN TimeHyperbolic(FNeg(x), FMul(MathSqrt(FNeg(x)), y))
  ELSE IF FGt(x, Zero) THEN TimeElliptic(x, FMul(MathSqrt(x), y))
  ELSE FMul(FDiv(Two, Three), FSub(One, FMul(FMul(y, y), y)))

\* calculateTimeDerivative: its two branches, for sqrt_x = sqrt(|x|) and
\* sy = sqrt(|x|) * y.
DerivativeHyperbolic(neg_x, y, sqrt_neg_x, sy) ==
  FDiv(FAdd(FAdd(FMul(Three, MathAsinh(sy)), FMul(FMul(Three, sqrt_neg_x), y)),
            FMul(FMul(sy, y), y)),
       FMul(Two, FMul(FMul(neg_x, neg_x), sqrt_neg_x)))
DerivativeElliptic(x, y, sqrt_x, sy) ==
  FDiv(FSub(FAdd(FMul(Three, AsinOrSupplement(FLe(sy, One), MathAsin(sy))),
                 FMul(FMul(Three, sqrt_x), y)),
            FMul(FMul(sy, y), y)),
       FMul(Two, FMul(FMul(x, x), sqrt_x)))
DerivativeBranch(x, y, sqrt_x) ==
  IF FLt(x, Zero) THEN DerivativeHyperbolic(FNeg(x), y, sqrt_x, FMul(sqrt_x, y))
  ELSE DerivativeElliptic(x, y, sqrt_x, FMul(sqrt_x, y))

calculateTimeDerivative(x, y) ==
  IF FLt(x, Zero) \/ FGt(x, Zero) THEN DerivativeBranch(x, y, MathSqrt(MathAbs(x)))
  ELSE FMul(FNeg(y), y)

\* calculateTimeSecondDerivative: the central difference of the first
\* derivative at x + epsilon and x - epsilon.
epsilon == Dec(1, -8)
DerivativeAt(x, lambda) == calculateTimeDerivative(x, calculateY(x, lambda))
calculateTimeSecondDerivative(x, y, lambda) ==
  FDiv(FSub(DerivativeAt(FAdd(x, epsilon), lambda),
            DerivativeAt(FSub(x, epsilon), lambda)),
       FMul(Two, epsilon))

\* solveForX before its loop: the initial guess, no iteration made.
solveForXStart(lambda, T) ==
  [x |-> IF FGe(T, FDiv(One, Three))
           THEN FSub(FRoot(FMul(T, Three), 3), One)
           ELSE FDiv(FMul(FMul(FMul(Num(5), T), T), T),
                     FMul(Two, FSub(One, FMul(FMul(lambda, lambda), lambda)))),
   iterations |-> 0, converged |-> FALSE, thrown |-> "none", F |-> NaN]

\* One pass through the body of the while loop of solveForX, local by
\* local: y, F, the two derivatives, the denominator, delta_x.
PassFromDelta(st, F, delta_x) ==
  [st EXCEPT
     !.x = MathMax(Num(-1),
                   MathMin(FAdd(st.x, FMul(MathSign(delta_x),
                                           MathMin(MathAbs(delta_x), Half))),
                           Num(50))),
     !.iterations = @ + 1, !.F = F]
PassFromDenominator(st, F, denominator) ==
  IF FLt(MathAbs(denominator), Dec(1, -15))
    THEN [st EXCEPT !.thrown = "DerivativeTooSmall", !.F = F]
    ELSE PassFromDelta(st, F, FDiv(FNeg(F), denominator))
PassFromDerivatives(st, F, dT_dx, d2T_dx2) ==
  PassFromDenominator(st, F, FSub(dT_dx, FDiv(FMul(F, d2T_dx2), FMul(Two, dT_dx))))
PassFromF(st, lambda, tolerance, y, F) ==
  IF FLt(MathAbs(F), tolerance) THEN [st EXCEPT !.converged = TRUE, !.F = F]
  ELSE PassFromDerivatives(st, F, calculateTimeDerivative(st.x, y),
                           calculateTimeSecondDerivative(st.x, y, lambda))
PassFromY(st, lambda, T, tolerance, y) ==
  PassFromF(st, lambda, tolerance, y, FSub(calculateTime(st.x, y), T))
HouseholderPass(st, lambda, T, tolerance) ==
  PassFromY(st, lambda, T, tolerance, calculateY(st.x, lambda))

\* The while loop of solveForX runs on.
LoopRuns(st, maxIterations) ==
  st.iterations < maxIterations /\ ~st.converged /\ st.thrown = "none"

RECURSIVE HouseholderLoop(_, _, _, _, _)
HouseholderLoop(st, lambda, T, tolerance, maxIterations) ==
  IF LoopRuns(st, maxIterations)
    THEN HouseholderLoop(HouseholderPass(st, lambda, T, tolerance),
                         lambda, T, tolerance, maxIterations)
    ELSE st

\* A variant that returns the last iterate whether or not it converged.
solveForXEndReturnsLast(st) == st

\* solveForX after its loop: the Error thrown, or "none" and x returned.
solveForXEnd(st) ==
  IF st.thrown # "none" THEN st
  ELSE IF ~st.converged THEN [st EXCEPT !.thrown = "NoConvergence"]
  ELSE st

solveForX(lambda, T, tolerance, maxIterations) ==
  solveForXEnd(HouseholderLoop(solveForXStart(lambda, T), lambda, T,
                               tolerance, maxIterations))

\* calculateLagrangeCoefficients, local by local: a, then f, g and gdot.
LagrangeFromFG(f, g, gdot) ==
  [thrown |-> "none", f |-> f, g |-> g,
   fdot |-> FDiv(FSub(FMul(f, gdot), One), g), gdot |-> gdot]
LagrangeFromA(x, lambda, r1_mag, r2_mag, s, mu, a) ==
  IF FLe(a, Zero)
    THEN [thrown |-> "InvalidSemiMajorAxis", f |-> NaN, g |-> NaN,
          fdot |-> NaN, gdot |-> NaN]
    ELSE LagrangeFromFG(
           FSub(One, FMul(FDiv(a, r1_mag), FSub(One, FMul(x, x)))),
           FDiv(FMul(FMul(a, FSub(FSub(s, r1_mag), r2_mag)), MathSqrt(a)),
                FMul(FMul(MathSqrt(mu), r1_mag), calculateY(x, lambda))),
           FSub(One, FMul(FDiv(a, r2_mag), FSub(One, FMul(x, x)))))
calculateLagrangeCoefficients(x, lambda, r1_mag, r2_mag, s, T, timeOfFlight, mu) ==
  LagrangeFromA(x, lambda, r1_mag, r2_mag, s, mu,
                FDiv(s, FMul(Two, FSub(One, FMul(x, x)))))

(***************************************************************************)
(* trajectory-engine.ts: LambertSolver                                     *)
(***************************************************************************)
tolerance == Dec(1, -14)
maxIterations == 30

\* Math.cos(Math.atan2(sin_dnu, cos_dnu) / 2) for sin_dnu >= 0, by the
\* half-angle identity cos(t/2) = sqrt((1 + cos t) / 2) on [0, pi]; h is
\* the length of (cos_dnu, sin_dnu).
CosHalfFrom(cos_dnu, h) ==
  IF h = Zero THEN One ELSE MathSqrt(FMul(Half, FAdd(One, FDiv(cos_dnu, h))))
CosHalfAtan2(sin_dnu, cos_dnu) ==
  CosHalfFrom(cos_dnu, MathSqrt(FAdd(FMul(sin_dnu, sin_dnu), FMul(cos_dnu, cos_dnu))))

\* The locals of LambertSolver.solve, in the order the code computes them.
\* r1_mag, r2_mag and the chord c:
LambertMagnitudes(r1, r2) ==
  [r1_mag |-> magnitude(r1), r2_mag |-> magnitude(r2),
   c |-> magnitude(VecSubtract(r2, r1))]

\* the semiperimeter s and cos(dnu / 2); with prograde dnu is
\* atan2(sin_dnu, cos_dnu_clamped), otherwise 2 pi less that angle:
LambertAngle(r1, r2, prograde, m) ==
  [r1_mag |-> m.r1_mag, r2_mag |-> m.r2_mag, c |-> m.c,
   s |-> FDiv(FAdd(FAdd(m.r1_mag, m.r2_mag), m.c), Two),
   cos_half_dnu |->
     WithSign(IF prograde THEN 1 ELSE -1,
              CosHalfAtan2(
                FDiv(magnitude(VecCross(r1, r2)), FMul(m.r1_mag, m.r2_mag)),
                MathMax(Num(-1),
                        MathMin(One, FDiv(VecDot(r1, r2),
                                          FMul(m.r1_mag, m.r2_mag))))))]

\* the normalised time of flight T and lambda:
LambertNormalised(timeOfFlight, mu, m) ==
  [r1_mag |-> m.r1_mag, r2_mag |-> m.r2_mag, c |-> m.c, s |-> m.s,
   T |-> FMul(MathSqrt(FDiv(FMul(Two, mu), FMul(FMul(m.s, m.s), m.s))),
              timeOfFlight),
   lambda |-> FDiv(FMul(MathSqrt(FMul(m.r1_mag, m.r2_mag)), m.cos_half_dnu), m.s)]

\* and T_min.
LambertMinimum(m) ==
  [r1_mag |-> m.r1_mag, r2_mag |-> m.r2_mag, c |-> m.c, s |-> m.s,
   T |-> m.T, lambda |-> m.lambda,
   T_min |-> computeMinimumEnergyTime(m.lambda)]

\* The entry checks of LambertSolver.solve without the check of the chord.
LambertChecksWithoutChord(timeOfFlight, mu, multiRevs, m) ==
  IF FLt(m.r1_mag, Dec(1, -6)) \/ FLt(m.r2_mag, Dec(1, -6))
    THEN "InvalidPositionVectors"
  ELSE IF FLe(timeOfFlight, Zero) THEN "TimeOfFlightNotPositive"
  ELSE IF FLe(mu, Zero) THEN "MuNotPositive"
  ELSE IF FGe(MathAbs(m.lambda), One) THEN "ImpossibleGeometry"
  ELSE IF multiRevs = 0
    THEN (IF FLt(m.T, m.T_min) THEN "TimeTooShort" ELSE "none")
  ELSE "MultiRevNotImplemented"

\* The entry checks of LambertSolver.solve without the check of T against
\* T_min.
LambertChecksWithoutMinimum(timeOfFlight, mu, multiRevs, m) ==
  IF FLt(m.r1_mag, Dec(1, -6)) \/ FLt(m.r2_mag, Dec(1, -6))
    THEN "InvalidPositionVectors"
  ELSE IF FLe(timeOfFlight, Zero) THEN "TimeOfFlightNotPositive"
  ELSE IF FLe(mu, Zero) THEN "MuNotPositive"
  ELSE IF FLt(m.c, Dec(1, -6)) THEN "DegenerateLambert"
  ELSE IF FGe(MathAbs(m.lambda), One) THEN "ImpossibleGeometry"
  ELSE IF multiRevs = 0 THEN "none"
  ELSE "MultiRevNotImplemented"

\* The entry checks of LambertSolver.solve: the Error thrown, in the order
\* of the code, or "none".
LambertChecks(timeOfFlight, mu, multiRevs, m) ==
  IF FLt(m.r1_mag, Dec(1, -6)) \/ FLt(m.r2_mag, Dec(1, -6))
    THEN "InvalidPositionVectors"
  ELSE IF FLe(timeOfFlight, Zero) THEN "TimeOfFlightNotPositive"
  ELSE IF FLe(mu, Zero) THEN "MuNotPositive"
  ELSE IF FLt(m.c, Dec(1, -6)) THEN "DegenerateLambert"
  ELSE IF FGe(MathAbs(m.lambda), One) THEN "ImpossibleGeometry"
  ELSE IF multiRevs = 0
    THEN (IF FLt(m.T, m.T_min) THEN "TimeTooShort" ELSE "none")
  ELSE "MultiRevNotImplemented"

LambertChecked(timeOfFlight, mu, multiRevs, m) ==
  [thrown |-> LambertChecks(timeOfFlight, mu, multiRevs, m),
   r1_mag |-> m.r1_mag, r2_mag |-> m.r2_mag, c |-> m.c, s |-> m.s,
   T |-> m.T, lambda |-> m.lambda, T_min |-> m.T_min]

\* LambertSolver.solve up to the call of solveForX: the Error thrown by the
\* entry checks, or "none", and the normalised problem.
LambertEntry(r1, r2, timeOfFlight, mu, prograde, multiRevs) ==
  LambertChecked(timeOfFlight, mu, multiRevs,
    LambertMinimum(
      LambertNormalised(timeOfFlight, mu,
        LambertAngle(r1, r2, prograde, LambertMagnitudes(r1, r2)))))

\* LambertSolver.solve after solveForX returned x: the determinant, the
\* check of g, and the two velocities.
FinishFromV1(r1, co, determinant, v1) ==
  [thrown |-> "none", determinant |-> determinant,
   velocityDeparture |-> v1,
   velocityArrival |->
     VecAdd(VecMultiply(v1, co.fdot), VecMultiply(r1, FDiv(co.gdot, co.g)))]
FinishFromCoefficients(r1, r2, co) ==
  IF co.thrown # "none"
    THEN [thrown |-> co.thrown, determinant |-> NaN,
          velocityDeparture |-> Vector3D(NaN, NaN, NaN),
          velocityArrival |-> Vector3D(NaN, NaN, NaN)]
  ELSE IF FLt(MathAbs(co.g), Dec(1, -15))
    THEN [thrown |-> "SingularSolution",
          determinant |-> FSub(FMul(co.f, co.gdot), FMul(co.fdot, co.g)),
          velocityDeparture |-> Vector3D(NaN, NaN, NaN),
          velocityArrival |-> Vector3D(NaN, NaN, NaN)]
  ELSE FinishFromV1(r1, co, FSub(FMul(co.f, co.gdot), FMul(co.fdot, co.g)),
                    VecMultiply(VecSubtract(r2, VecMultiply(r1, co.f)),
                                FDiv(One, co.g)))
LambertFinish(en, x, r1, r2, timeOfFlight, mu) ==
  FinishFromCoefficients(r1, r2,
    calculateLagrangeCoefficients(x, en.lambda, en.r1_mag, en.r2_mag,
                                  en.s, en.T, timeOfFlight, mu))

\* The LambertResult returned.
LambertResult(fin, prograde) ==
  [thrown |-> "none",
   velocityDeparture |-> fin.velocityDeparture,
   velocityArrival |-> fin.velocityArrival,
   convergenceIterations |-> maxIterations,
   solutionType |-> IF prograde THEN "prograde" ELSE "retrograde"]

\* LambertSolver.solve: what the entry checks, solveForX and the final
\* steps throw, or the result.
SolveFromFinish(fin, prograde) ==
  IF fin.thrown # "none" THEN [thrown |-> fin.thrown]
  ELSE LambertResult(fin, prograde)
SolveFromX(en, sx, r1, r2, timeOfFlight, mu, prograde) ==
  IF sx.thrown # "none" THEN [thrown |-> sx.thrown]
  ELSE SolveFromFinish(LambertFinish(en, sx.x, r1, r2, timeOfFlight, mu), prograde)
SolveFromEntry(en, r1, r2, timeOfFlight, mu, prograde) ==
  IF en.thrown # "none" THEN [thrown |-> en.thrown]
  ELSE SolveFromX(en, solveForX(en.lambda, en.T, tolerance, maxIterations),
                  r1, r2, timeOfFlight, mu, prograde)
LambertSolver_solve(r1, r2, timeOfFlight, mu, prograde, multiRevs) ==
  SolveFromEntry(LambertEntry(r1, r2, timeOfFlight, mu, prograde, multiRevs),
                 r1, r2, timeOfFlight, mu, prograde)

(***************************************************************************)
(* trajectory-engine.ts: HohmannTransfer                                   *)
(***************************************************************************)
\* Math.pow(massRatio, 2/5) as the fifth root of the square.
SOIFromMassRatio(earthMoonDistance, massRatio) ==
  FMul(earthMoonDistance, FRoot(FMul(massRatio, massRatio), 5))
getLunarSOI == SOIFromMassRatio(EARTH_MOON_DISTANCE, FDiv(MU_MOON, MU_EARTH))

\* period / 2 for period = 2 pi sqrt(a^3 / mu), a = (r1 + r2) / 2.
calculateTransferTime(r1, r2, mu) ==
  FDiv(FMul(FMul(Two, MathPI),
            MathSqrt(FDiv(FPowInt(FDiv(FAdd(r1, r2), Two), 3), mu))),
       Two)

\* characteristic_time * Math.log(hyperbolic_factor)
calculateLunarCaptureTime(r_soi, r_parking, v_infinity) ==
  FMul(MathSqrt(FDiv(FPowInt(r_soi, 3), MU_MOON)),
       MathLog(FAdd(One, FDiv(FMul(FMul(v_infinity, v_infinity), r_soi),
                              FMul(Two, MU_MOON)))))

\* validateEnergyBalance: energy_error < 1e-6 for the two energies.
EnergyBalanced(energy1, energy2) ==
  FLt(FDiv(MathAbs(FSub(energy1, energy2)), MathAbs(energy1)), Dec(1, -6))
validateEnergyBalance(r1, r2, v1, v2) ==
  EnergyBalanced(FSub(FDiv(FMul(v1, v1), Two), FDiv(MU_EARTH, r1)),
                 FSub(FDiv(FMul(v2, v2), Two), FDiv(MU_EARTH, r2)))

OrbitalElements(semiMajorAxis, eccentricity) ==
  [semiMajorAxis |-> semiMajorAxis, eccentricity |-> eccentricity,
   inclination |-> Zero, rightAscension |-> Zero, argOfPerigee |-> Zero,
   trueAnomaly |-> Zero]

\* HohmannTransfer.calculate from a_transfer and the velocities on.
HohmannFromSeconds(r1, r2, a_transfer, deltaV1, deltaV2, transferTimeSeconds) ==
  IF timeConversionThrown(transferTimeSeconds) # "none"
    THEN [thrown |-> timeConversionThrown(transferTimeSeconds)]
    ELSE [thrown |-> "none",
          deltaV1 |-> deltaV1,
          deltaV2 |-> deltaV2,
          transferTime |-> secondsToHours(transferTimeSeconds),
          transferOrbit |->
            OrbitalElements(a_transfer,
                            FDiv(MathAbs(FSub(r2, r1)), FAdd(r1, r2)))]
HohmannFromAxis(r1, r2, mu, a_transfer) ==
  HohmannFromSeconds(r1, r2, a_transfer,
    MathAbs(FSub(MathSqrt(FMul(mu, FSub(FDiv(Two, r1), FDiv(One, a_transfer)))),
                 MathSqrt(FDiv(mu, r1)))),
    MathAbs(FSub(MathSqrt(FDiv(mu, r2)),
                 MathSqrt(FMul(mu, FSub(FDiv(Two, r2), FDiv(One, a_transfer)))))),
    FMul(MathPI, MathSqrt(FDiv(FPowInt(a_transfer, 3), mu))))

\* HohmannTransfer.calculate
HohmannTransfer_calculate(r1, r2, mu) ==
  HohmannFromAxis(r1, r2, mu, FDiv(FAdd(r1, r2), Two))

\* The locals of calculateEarthMoonTransfer, in the order the code
\* computes them.  The radii:
TransferRadii(lunarSOI) ==
  [r_earth_parking |-> FAdd(EARTH_RADIUS, EARTH_LOW_ORBIT),
   r_moon_parking |-> FAdd(MOON_RADIUS, MOON_ORBIT_ALT),
   lunarSOI |-> lunarSOI,
   r_soi_boundary |-> FSub(EARTH_MOON_DISTANCE, lunarSOI)]

\* phase 1, the escape from Earth, and the velocities at the sphere of
\* influence:
EarthEscapePhase(c) ==
  c @@
  [v_earth_circular |-> MathSqrt(FDiv(MU_EARTH, c.r_earth_parking)),
   v_departure_magnitude |->
     MathSqrt(FMul(Two, FAdd(FDiv(FNeg(MU_EARTH), FMul(Two, c.r_soi_boundary)),
                             FDiv(MU_EARTH, c.r_earth_parking)))),
   v_at_soi_earth_frame |-> MathSqrt(FDiv(FMul(Two, MU_EARTH), c.r_soi_boundary)),
   v_moon_orbital |-> MathSqrt(FDiv(MU_EARTH, EARTH_MOON_DISTANCE))]

\* the hyperbolic excess velocity:
ExcessVelocity(c) ==
  c @@
  [deltaV_earth_escape |-> FSub(c.v_departure_magnitude, c.v_earth_circular),
   v_infinity |-> MathAbs(FSub(c.v_at_soi_earth_frame, c.v_moon_orbital))]

\* phase 3, the lunar capture:
LunarCapturePhase(c) ==
  c @@
  [v_soi_entry_lunar_frame |->
     MathSqrt(FAdd(FMul(c.v_infinity, c.v_infinity),
                   FDiv(FMul(Two, MU_MOON), c.lunarSOI))),
   v_periapsis_capture |->
     MathSqrt(FMul(MU_MOON,
                   FSub(FDiv(Two, c.r_moon_parking),
                        FDiv(Two, FAdd(c.lunarSOI, c.r_moon_parking))))),
   v_lunar_circular |-> MathSqrt(FDiv(MU_MOON, c.r_moon_parking))]

\* the two lunar burns and the two times:
TransferTimes(c) ==
  c @@
  [deltaV_lunar_capture |-> FSub(c.v_soi_entry_lunar_frame, c.v_periapsis_capture),
   deltaV_lunar_insertion |-> FSub(c.v_periapsis_capture, c.v_lunar_circular),
   earthTransferTime |->
     calculateTransferTime(c.r_earth_parking, c.r_soi_boundary, MU_EARTH),
   lunarCaptureTime |->
     calculateLunarCaptureTime(c.lunarSOI, c.r_moon_parking, c.v_infinity)]

\* What the three calls of secondsToHours throw.
TransferThrown(c) ==
  IF timeConversionThrown(c.earthTransferTime) # "none"
    THEN timeConversionThrown(c.earthTransferTime)
  ELSE IF timeConversionThrown(c.lunarCaptureTime) # "none"
    THEN timeConversionThrown(c.lunarCaptureTime)
  ELSE timeConversionThrown(FAdd(c.earthTransferTime, c.lunarCaptureTime))

\* The object calculateEarthMoonTransfer returns.
TransferResult(c) ==
  [thrown |-> TransferThrown(c),
   earthEscape |->
     [deltaV1 |-> c.deltaV_earth_escape,
      deltaV2 |-> Zero,
      transferTime |-> secondsToHours(c.earthTransferTime),
      transferOrbit |->
        OrbitalElements(
          FDiv(FAdd(c.r_earth_parking, c.r_soi_boundary), Two),
          FDiv(MathAbs(FSub(c.r_soi_boundary, c.r_earth_parking)),
               FAdd(c.r_earth_parking, c.r_soi_boundary)))],
   lunarCapture |->
     [deltaV1 |-> c.deltaV_lunar_capture,
      deltaV2 |-> c.deltaV_lunar_insertion,
      transferTime |-> secondsToHours(c.lunarCaptureTime),
      transferOrbit |->
        OrbitalElements(
          FDiv(FAdd(c.lunarSOI, c.r_moon_parking), Two),
          FDiv(FSub(c.lunarSOI, c.r_moon_parking),
               FAdd(c.lunarSOI, c.r_moon_parking)))],
   totalDeltaV |->
     FAdd(c.deltaV_earth_escape,
          FAdd(c.deltaV_lunar_capture, c.deltaV_lunar_insertion)),
   totalTime |-> secondsToHours(FAdd(c.earthTransferTime, c.lunarCaptureTime)),
   lunarSOI |-> c.lunarSOI,
   v_infinity |-> c.v_infinity,
   patchedConicDetails |->
     [lunarSOI |-> c.lunarSOI,
      v_infinity |-> c.v_infinity,
      v_at_soi_earth_frame |-> c.v_at_soi_earth_frame,
      v_soi_entry_lunar_frame |-> c.v_soi_entry_lunar_frame,
      moon_orbital_velocity |-> c.v_moon_orbital,
      energy_balance_check |->
        validateEnergyBalance(c.r_earth_parking, c.r_soi_boundary,
                              c.v_departure_magnitude, c.v_at_soi_earth_frame)]]

\* HohmannTransfer.calculateEarthMoonTransfer
calculateEarthMoonTransfer ==
  TransferResult(
    TransferTimes(
      LunarCapturePhase(ExcessVelocity(EarthEscapePhase(TransferRadii(getLunarSOI))))))

(***************************************************************************)
(* trajectory-engine.ts: LunarOrbitInsertion                               *)
(***************************************************************************)
\* assessFeasibility
assessFeasibility(totalDeltaV, r_target) ==
  [propulsive |-> FLt(totalDeltaV, Dec(25, -1)),
   thermal |-> FGt(r_target, FAdd(MOON_RADIUS, Num(10))),
   navigation |-> FLt(totalDeltaV, Three)]

\* The LOIResult of calculateDirectInsertion for its totalDeltaV.
DirectFromDeltaV(r_target, totalDeltaV) ==
  [thrown |-> "none", strategy |-> "direct",
   totalDeltaV |-> totalDeltaV,
   captureOrbitDeltaV |-> Zero,
   insertionDeltaV |-> totalDeltaV,
   captureOrbitElements |-> OrbitalElements(r_target, Zero),
   finalOrbitElements |-> OrbitalElements(r_target, Zero),
   totalTime |-> Dec(1, -1),
   fuelEfficiency |-> Num(100),
   feasibility |-> assessFeasibility(totalDeltaV, r_target)]

\* calculateDirectInsertion: v_periapsis_hyperbolic - v_circular.
calculateDirectInsertion(v_infinity, r_target) ==
  DirectFromDeltaV(r_target,
    FSub(MathSqrt(FAdd(FMul(v_infinity, v_infinity),
                       FDiv(FMul(Two, MU_MOON), r_target))),
         MathSqrt(FDiv(MU_MOON, r_target))))

\* The LOIResult of the two capture strategies from their burns, the
\* capture orbit (periapsis, apoapsis) and the time in seconds.
CaptureFromTotal(r_target, r_periapsis, r_far, captureOrbitDeltaV, insertionDeltaV, totalDeltaV, seconds) ==
  IF timeConversionThrown(seconds) # "none"
    THEN [thrown |-> timeConversionThrown(seconds)]
    ELSE [thrown |-> "none", strategy |-> "capture_orbit",
          totalDeltaV |-> totalDeltaV,
          captureOrbitDeltaV |-> captureOrbitDeltaV,
          insertionDeltaV |-> insertionDeltaV,
          captureOrbitElements |->
            OrbitalElements(FDiv(FAdd(r_periapsis, r_far), Two),
                            FDiv(FSub(r_far, r_periapsis), FAdd(r_far, r_periapsis))),
          finalOrbitElements |-> OrbitalElements(r_target, Zero),
          totalTime |-> secondsToHours(seconds),
          fuelEfficiency |-> Zero,
          feasibility |-> assessFeasibility(totalDeltaV, r_target)]
CaptureFromBurns(r_target, r_periapsis, r_far, captureOrbitDeltaV, insertionDeltaV, period, orbits) ==
  CaptureFromTotal(r_target, r_periapsis, r_far, captureOrbitDeltaV, insertionDeltaV,
                   FAdd(captureOrbitDeltaV, insertionDeltaV), FMul(period, orbits))

\* 2 pi sqrt(a^3 / mu_Moon) for a = (r_periapsis + r_far) / 2.
CapturePeriod(r_periapsis, r_far) ==
  FMul(FMul(Two, MathPI),
       MathSqrt(FDiv(FPowInt(FDiv(FAdd(r_periapsis, r_far), Two), 3), MU_MOON)))

\* calculateHighEnergyCapture, with r_intermediate = r_target * 3.
HighEnergyFromIntermediate(v_infinity, r_target, r_periapsis, r_intermediate) ==
  CaptureFromBurns(r_target, r_periapsis, r_intermediate,
    FSub(MathSqrt(FAdd(FMul(v_infinity, v_infinity),
                       FDiv(FMul(Two, MU_MOON), r_periapsis))),
         MathSqrt(FMul(Two, FAdd(FDiv(FNeg(MU_MOON), FAdd(r_periapsis, r_intermediate)),
                                 FDiv(MU_MOON, r_periapsis))))),
    MathAbs(FSub(MathSqrt(FDiv(MU_MOON, r_target)),
                 MathSqrt(FMul(MU_MOON,
                               FSub(FDiv(Two, r_intermediate),
                                    FDiv(Two, FAdd(r_periapsis, r_intermediate))))))),
    CapturePeriod(r_periapsis, r_intermediate), One)
calculateHighEnergyCapture(v_infinity, r_target, r_periapsis) ==
  HighEnergyFromIntermediate(v_infinity, r_target, r_periapsis, FMul(r_target, Three))

\* calculateCaptureOrbitInsertion from specific_energy_target and
\* r_apoapsis on.
CaptureFromApoapsis(v_infinity, r_target, r_periapsis, energy, r_apoapsis) ==
  IF FGt(r_apoapsis, FMul(MOON_RADIUS, Num(100)))
    THEN calculateHighEnergyCapture(v_infinity, r_target, r_periapsis)
    ELSE CaptureFromBurns(r_target, r_periapsis, r_apoapsis,
           FSub(MathSqrt(FAdd(FMul(v_infinity, v_infinity),
                              FDiv(FMul(Two, MU_MOON), r_periapsis))),
                MathSqrt(FMul(Two, FAdd(energy, FDiv(MU_MOON, r_periapsis))))),
           MathAbs(FSub(MathSqrt(FDiv(MU_MOON, r_target)),
                        MathSqrt(FMul(Two, FAdd(energy, FDiv(MU_MOON, r_apoapsis)))))),
           CapturePeriod(r_periapsis, r_apoapsis), Half)
CaptureFromEnergy(v_infinity, r_target, r_periapsis, energy) ==
  CaptureFromApoapsis(v_infinity, r_target, r_periapsis, energy,
                      FSub(FDiv(MU_MOON, FMul(Two, energy)), r_periapsis))

\* calculateCaptureOrbitInsertion
calculateCaptureOrbitInsertion(v_infinity, r_target, r_periapsis) ==
  CaptureFromEnergy(v_infinity, r_target, r_periapsis,
                    FDiv(FNeg(MU_MOON), FMul(Two, r_target)))

\* getOptimalPeriapsis
OptimalFromBounds(v_infinity, min_periapsis, max_periapsis) ==
  FAdd(min_periapsis,
       FMul(MathMin(FDiv(v_infinity, Two), One), FSub(max_periapsis, min_periapsis)))
getOptimalPeriapsis(v_infinity, r_target) ==
  OptimalFromBounds(v_infinity, FAdd(MOON_RADIUS, Num(15)), FMul(r_target, Dec(8, -1)))

\* r_periapsis || getOptimalPeriapsis(...): the optional argument is used
\* unless it is undefined, 0 or NaN.
PeriapsisOr(r_periapsis, optimal) ==
  IF r_periapsis.defined /\ ~isNaN(r_periapsis.value) /\ r_periapsis.value.s # 0
    THEN r_periapsis.value
    ELSE optimal

\* The two checks calculateOptimalLOI makes of its arguments.
LOIInputThrown(v_infinity, r_target) ==
  IF FLe(v_infinity, Zero) \/ FGt(v_infinity, Num(5)) THEN "VelocityOutOfRange"
  ELSE IF FLe(r_target, MOON_RADIUS) \/ FGt(r_target, FMul(MOON_RADIUS, Num(10)))
    THEN "TargetRadiusOutOfRange"
  ELSE "none"

\* calculateOptimalLOI from the two strategies on: the lower total wins.
SelectStrategy(directResult, captureOrbitResult) ==
  IF directResult.thrown # "none" THEN [thrown |-> directResult.thrown]
  ELSE IF captureOrbitResult.thrown # "none" THEN [thrown |-> captureOrbitResult.thrown]
  ELSE IF FLt(captureOrbitResult.totalDeltaV, directResult.totalDeltaV)
    THEN [captureOrbitResult EXCEPT
            !.strategy = "capture_orbit",
            !.fuelEfficiency =
              FMul(FSub(FDiv(directResult.totalDeltaV,
                             captureOrbitResult.totalDeltaV), One), Num(100))]
    ELSE [directResult EXCEPT !.strategy = "direct", !.fuelEfficiency = Num(100)]

\* LunarOrbitInsertion.calculateOptimalLOI
calculateOptimalLOI(v_infinity, r_target, r_periapsis) ==
  IF LOIInputThrown(v_infinity, r_target) # "none"
    THEN [thrown |-> LOIInputThrown(v_infinity, r_target)]
    ELSE SelectStrategy(
           calculateDirectInsertion(v_infinity, r_target),
           calculateCaptureOrbitInsertion(v_infinity, r_target,
             PeriapsisOr(r_periapsis, getOptimalPeriapsis(v_infinity, r_target))))

(***************************************************************************)
(* trajectory-engine.ts: FuelOptimizer                                     *)
(***************************************************************************)
\* 0.05 * timeFactor * thrustFactor, and 0 for a burn under a minute.
calculateGravityLossFactor(burnTime, twRatio) ==
  IF FLt(burnTime, Num(60)) THEN Zero
  ELSE FMul(FMul(Dec(5, -2), MathMin(FDiv(burnTime, Num(600)), One)),
            MathMax(Dec(1, -1), FDiv(One, twRatio)))

\* calculateVariableMassBurnTime from burnTimeConstantThrust on.
BurnTimeFromConstantThrust(burnTimeConstantThrust, twRatio) ==
  IF FGt(twRatio, Half)
    THEN MathMin(FMul(burnTimeConstantThrust,
                      FAdd(One, calculateGravityLossFactor(burnTimeConstantThrust,
                                                           twRatio))),
                 FMul(burnTimeConstantThrust, Dec(12, -1)))
    ELSE burnTimeConstantThrust

\* propellantMass / massFlowRate for F = twRatio * m0 * g0 and
\* massFlowRate = F / ve, then the gravity-loss correction.
calculateVariableMassBurnTime(m0, mf, twRatio, ve, g0) ==
  BurnTimeFromConstantThrust(
    FDiv(FSub(m0, mf), FDiv(FMul(FMul(twRatio, m0), g0), ve)), twRatio)

DEFAULT_THRUST_TO_WEIGHT == Dec(3, -1)
g0 == Dec(980665, -5)

\* The four checks FuelOptimizer.calculate makes of its arguments.
FuelInputThrown(deltaV, dryMass, specificImpulse, thrustToWeightRatio) ==
  IF validateDeltaV(deltaV) # "none" THEN validateDeltaV(deltaV)
  ELSE IF FLe(dryMass, Zero) \/ ~isFinite(dryMass) THEN "DryMassInvalid"
  ELSE IF FLe(specificImpulse, Zero) \/ ~isFinite(specificImpulse)
    THEN "SpecificImpulseInvalid"
  ELSE IF FLe(thrustToWeightRatio, Zero) \/ FGt(thrustToWeightRatio, Two)
    THEN "ThrustToWeightInvalid"
  ELSE kmPerSecToMPerSecThrown(deltaV)

\* FuelOptimizer.calculate from burnTime on, from totalMass on, and from
\* massRatio on.
FuelFromBurnTime(specificImpulse, massRatio, propellantMass, burnTime) ==
  IF FLt(burnTime, Zero) THEN [thrown |-> "NegativeBurnTime"]
  ELSE [thrown |-> "none",
        massRatio |-> toFixed(massRatio, 4),
        propellantMass |-> toFixed(propellantMass, 1),
        specificImpulse |-> specificImpulse,
        burnTime |-> toFixed(burnTime, 1)]
\* A variant that takes the total mass for the propellant mass.
FuelFromTotalMassAsPropellant(dryMass, specificImpulse, thrustToWeightRatio, ve, massRatio, totalMass) ==
  FuelFromBurnTime(specificImpulse, massRatio, totalMass,
                   calculateVariableMassBurnTime(totalMass, dryMass,
                                                 thrustToWeightRatio, ve, g0))
FuelFromTotalMass(dryMass, specificImpulse, thrustToWeightRatio, ve, massRatio, totalMass) ==
  IF FLt(FSub(totalMass, dryMass), Zero) THEN [thrown |-> "NegativePropellantMass"]
  ELSE FuelFromBurnTime(specificImpulse, massRatio, FSub(totalMass, dryMass),
                        calculateVariableMassBurnTime(totalMass, dryMass,
                                                      thrustToWeightRatio, ve, g0))
FuelFromMassRatio(dryMass, specificImpulse, thrustToWeightRatio, ve, massRatio) ==
  IF ~isFinite(massRatio) \/ FLt(massRatio, One) THEN [thrown |-> "InvalidMassRatio"]
  ELSE FuelFromTotalMass(dryMass, specificImpulse, thrustToWeightRatio, ve,
                         massRatio, FMul(dryMass, massRatio))
FuelFromExhaustVelocity(deltaV, dryMass, specificImpulse, thrustToWeightRatio, ve) ==
  FuelFromMassRatio(dryMass, specificImpulse, thrustToWeightRatio, ve,
                    MathExp(FDiv(kmPerSecToMPerSec(deltaV), ve)))

\* FuelOptimizer.calculate
FuelOptimizer_calculate(deltaV, dryMass, specificImpulse, thrustToWeightRatio) ==
  IF FuelInputThrown(deltaV, dryMass, specificImpulse, thrustToWeightRatio) # "none"
    THEN [thrown |-> FuelInputThrown(deltaV, dryMass, specificImpulse,
                                     thrustToWeightRatio)]
    ELSE FuelFromExhaustVelocity(deltaV, dryMass, specificImpulse,
                                 thrustToWeightRatio, FMul(specificImpulse, g0))

(***************************************************************************)
(* trajectory-engine.ts: TrajectoryEngine and its helper functions         *)
(***************************************************************************)
assessTrajectoryRisks(type, deltaV, flightTime) ==
  (IF FGt(deltaV, Num(4)) THEN <<"HighDeltaV">> ELSE <<>>)
  \o (IF FGt(flightTime, Num(120)) THEN <<"ExtendedFlightTime">> ELSE <<>>)
  \o (IF type = "lambert" THEN <<"LambertTiming">> ELSE <<>>)
  \o <<"SolarActivity", "DebrisAvoidance">>

\* calculateEfficiency: theoretical_min from a_transfer, then the ratio
\* clamped to 0 .. 100.
TheoreticalMinimum(mu, r1, r2, a_transfer) ==
  FAdd(MathAbs(FSub(MathSqrt(FMul(mu, FSub(FDiv(Two, r1), FDiv(One, a_transfer)))),
                    MathSqrt(FDiv(mu, r1)))),
       MathAbs(FSub(MathSqrt(FDiv(mu, r2)),
                    MathSqrt(FMul(mu, FSub(FDiv(Two, r2), FDiv(One, a_transfer)))))))
\* A variant that returns the ratio as it is.
calculateEfficiencyUnclamped(deltaV, r1, r2) ==
  FMul(FDiv(TheoreticalMinimum(MU_EARTH, r1, r2, FDiv(FAdd(r1, r2), Two)), deltaV),
       Num(100))
calculateEfficiency(deltaV, r1, r2) ==
  MathMax(Zero,
          MathMin(Num(100),
                  FMul(FDiv(TheoreticalMinimum(MU_EARTH, r1, r2,
                                               FDiv(FAdd(r1, r2), Two)),
                            deltaV),
                       Num(100))))

\* new Date(str).getTime(): milliseconds since the epoch, NaN for a string
\* that is not a date.
DateStrings == {"2025-06-01T00:00:00.000Z", "2025-07-15T00:00:00.000Z", "not-a-date"}
NewDate(str) ==
  [time |-> IF str = "2025-06-01T00:00:00.000Z" THEN FMul(Num(20240), Num(86400000))
            ELSE IF str = "2025-07-15T00:00:00.000Z" THEN FMul(Num(20284), Num(86400000))
            ELSE NaN]

validTypes == {"hohmann", "lambert", "bi_elliptic"}

\* The number of points generatePatchedConicTrajectoryPoints and
\* generateLambertTrajectoryPoints return for numPoints.
PointCount(numPoints) == numPoints + 1

\* undefined, for a field of the result that was not computed.
Undefined == [defined |-> FALSE]

\* Math.sin and Math.cos for an angle in [0, PI]: the angle is folded into
\* [0, PI/2] and the Taylor series is summed to its 13th term.
RECURSIVE TaylorSum(_, _, _, _, _)
TaylorSum(x2, term, k, acc, n) ==
  IF n = 0 THEN FAdd(acc, term)
  ELSE TaylorSum(x2, FDiv(FMul(FNeg(term), x2), Num((k + 1) * (k + 2))), k + 2,
                 FAdd(acc, term), n - 1)
SinSeries(x) == TaylorSum(FMul(x, x), x, 1, Zero, 12)
CosSeries(x) == TaylorSum(FMul(x, x), One, 0, Zero, 12)
MathSin(x) ==
  IF FGt(x, FDiv(MathPI, Two)) THEN SinSeries(FSub(MathPI, x)) ELSE SinSeries(x)
MathCos(x) ==
  IF FGt(x, FDiv(MathPI, Two)) THEN FNeg(CosSeries(FSub(MathPI, x))) ELSE CosSeries(x)

\* generatePatchedConicTrajectoryPoints, the sample i of the first loop: a
\* point of the ellipse from r_earth to the SOI boundary at angle theta.
EarthPhaseAt(r, theta) == Vector3D(FMul(r, MathCos(theta)), FMul(r, MathSin(theta)), Zero)
EarthPhaseRadius(a_earth, e_earth, theta) ==
  FDiv(FMul(a_earth, FSub(One, FMul(e_earth, e_earth))),
       FAdd(One, FMul(e_earth, MathCos(theta))))
EarthPhasePoint(r_earth, soiTransition, earthPhasePoints, i) ==
  EarthPhaseAt(EarthPhaseRadius(FDiv(FAdd(r_earth, soiTransition), Two),
                                FDiv(MathAbs(FSub(soiTransition, r_earth)),
                                     FAdd(r_earth, soiTransition)),
                                FDiv(FMul(MathPI, Num(i)), Num(earthPhasePoints))),
               FDiv(FMul(MathPI, Num(i)), Num(earthPhasePoints)))

\* The sample i of the second loop: r interpolated from the SOI boundary to
\* r_moon, with the curvature as y.
LunarPhaseAt(r_moon, soiTransition, lunarSOI, t) ==
  Vector3D(FAdd(soiTransition, FMul(t, FSub(r_moon, soiTransition))),
           FMul(FMul(MathSin(FDiv(FMul(t, MathPI), Two)), lunarSOI), Dec(1, -1)),
           Zero)
LunarPhasePoint(r_moon, lunarSOI, lunarPhasePoints, i) ==
  LunarPhaseAt(r_moon, FSub(r_moon, lunarSOI), lunarSOI,
               FDiv(Num(i), Num(lunarPhasePoints)))

\* generatePatchedConicTrajectoryPoints: the points pushed by the two loops,
\* i = 0 .. earthPhasePoints and i = 1 .. lunarPhasePoints.
PatchedConicPoints(r_earth, r_moon, lunarSOI, numPoints, earthPhasePoints) ==
  [k \in 1 .. (earthPhasePoints + 1) + (numPoints - earthPhasePoints) |->
     IF k <= earthPhasePoints + 1
       THEN EarthPhasePoint(r_earth, FSub(r_moon, lunarSOI), earthPhasePoints, k - 1)
       ELSE LunarPhasePoint(r_moon, lunarSOI, numPoints - earthPhasePoints,
                            k - (earthPhasePoints + 1))]
generatePatchedConicTrajectoryPoints(r_earth, r_moon, lunarSOI, numPoints) ==
  PatchedConicPoints(r_earth, r_moon, lunarSOI, numPoints, (numPoints * 8) \div 10)


\* generateEarthMoonTrajectory, the branch transferType === 'hohmann':
\* what it throws, or "none" and the values it assigns.
HohmannAssigned(patchedConicTransfer) ==
  IF patchedConicTransfer.thrown # "none"
    THEN [thrown |-> patchedConicTransfer.thrown]
    ELSE [thrown |-> "none",
          totalDeltaV |-> patchedConicTransfer.totalDeltaV,
          flightTime |-> patchedConicTransfer.totalTime,
          trajectoryPoints |-> PointCount(100),
          orbitalElements |-> <<patchedConicTransfer.earthEscape.transferOrbit,
                                patchedConicTransfer.lunarCapture.transferOrbit>>,
          hohmannResult |-> patchedConicTransfer.earthEscape,
          lambertResult |-> Undefined]
HohmannBranch == HohmannAssigned(calculateEarthMoonTransfer)

\* The Lambert problem the branch transferType === 'lambert' poses.
EngineR1 == Vector3D(FAdd(EARTH_RADIUS, EARTH_LOW_ORBIT), Zero, Zero)
EngineR2 == Vector3D(EARTH_MOON_DISTANCE, Zero, Zero)

\* generateEarthMoonTrajectory, the branch transferType === 'lambert'.
LambertAssigned(flightTime, lambertResult) ==
  IF lambertResult.thrown # "none" THEN [thrown |-> lambertResult.thrown]
  ELSE [thrown |-> "none",
        totalDeltaV |->
          FAdd(MathAbs(FSub(magnitude(lambertResult.velocityDeparture),
                            MathSqrt(FDiv(MU_EARTH,
                                          FAdd(EARTH_RADIUS, EARTH_LOW_ORBIT))))),
               MathAbs(FSub(magnitude(lambertResult.velocityArrival),
                            MathSqrt(FDiv(MU_MOON,
                                          FAdd(MOON_RADIUS, MOON_ORBIT_ALT)))))),
        flightTime |-> flightTime,
        trajectoryPoints |-> PointCount(100),
        orbitalElements |-> <<>>,
        hohmannResult |-> Undefined,
        lambertResult |-> lambertResult]
LambertBranch(flightTime) ==
  IF timeConversionThrown(flightTime) # "none"
    THEN [thrown |-> timeConversionThrown(flightTime)]
    ELSE LambertAssigned(flightTime,
           LambertSolver_solve(EngineR1, EngineR2, hoursToSeconds(flightTime),
                               MU_EARTH, TRUE, 0))

\* generateEarthMoonTrajectory when neither branch is taken (bi_elliptic).
NoBranch(flightTime) ==
  [thrown |-> "none", totalDeltaV |-> Zero, flightTime |-> flightTime,
   trajectoryPoints |-> 0, orbitalElements |-> <<>>,
   hohmannResult |-> Undefined, lambertResult |-> Undefined]

\* The branches with a Lambert failure caught and the patched-conic
\* transfer computed in its place.
OrPatchedConic(br) == IF br.thrown # "none" THEN HohmannBranch ELSE br
\* A variant whose Hohmann branch keeps the caller's flight time.
TransferBranchKeepsFlightTime(transferType, flightTime) ==
  IF transferType = "hohmann" THEN [HohmannBranch EXCEPT !.flightTime = flightTime]
  ELSE IF transferType = "lambert" THEN LambertBranch(flightTime)
  ELSE NoBranch(flightTime)
TransferBranchWithFallback(transferType, flightTime) ==
  IF transferType = "lambert" THEN OrPatchedConic(LambertBranch(flightTime))
  ELSE IF transferType = "hohmann" THEN HohmannBranch
  ELSE NoBranch(flightTime)

\* generateEarthMoonTrajectory: the if / else if over transferType.
TransferBranch(transferType, flightTime) ==
  IF transferType = "hohmann" THEN HohmannBranch
  ELSE IF transferType = "lambert" THEN LambertBranch(flightTime)
  ELSE NoBranch(flightTime)

\* The checks generateEarthMoonTrajectory makes of its arguments.
EngineInputThrown(launchDate, transferType, flightTime) ==
  IF isNaN(launchDate.time) THEN "InvalidLaunchDate"
  ELSE IF validateMissionTime(flightTime) # "none" THEN validateMissionTime(flightTime)
  ELSE IF transferType \notin validTypes THEN "InvalidTransferType"
  ELSE "none"

\* The TrajectoryResult returned; trajectoryPoints is modelled by its length.
TrajectoryResult(transferType, br, fuelOptimization) ==
  IF fuelOptimization.thrown # "none" THEN [thrown |-> fuelOptimization.thrown]
  ELSE [thrown |-> "none",
        totalDeltaV |-> FDiv(MathRound(FMul(br.totalDeltaV, Num(1000))), Num(1000)),
        flightTime |-> FDiv(MathRound(FMul(br.flightTime, Num(10))), Num(10)),
        fuelMass |-> MathRound(fuelOptimization.propellantMass),
        efficiency |->
          FDiv(MathRound(FMul(calculateEfficiency(br.totalDeltaV,
                                                  FAdd(EARTH_RADIUS, EARTH_LOW_ORBIT),
                                                  EARTH_MOON_DISTANCE),
                              Num(10))),
               Num(10)),
        trajectoryPoints |-> br.trajectoryPoints,
        orbitalElements |-> br.orbitalElements,
        riskFactors |-> assessTrajectoryRisks(transferType, br.totalDeltaV,
                                              br.flightTime),
        calculations |->
          [hohmannTransfer |-> br.hohmannResult,
           lambertSolution |-> br.lambertResult,
           fuelOptimization |-> fuelOptimization]]

\* generateEarthMoonTrajectory after its branch: the fuel requirements and
\* the result.
ResultFromBranch(transferType, br) ==
  IF br.thrown # "none" THEN [thrown |-> br.thrown]
  ELSE TrajectoryResult(transferType, br,
         FuelOptimizer_calculate(br.totalDeltaV, SPACECRAFT_DRY_MASS,
                                 SPECIFIC_IMPULSE, DEFAULT_THRUST_TO_WEIGHT))

\* TrajectoryEngine.generateEarthMoonTrajectory
generateEarthMoonTrajectory(launchDate, transferType, flightTime) ==
  IF EngineInputThrown(launchDate, transferType, flightTime) # "none"
    THEN [thrown |-> EngineInputThrown(launchDate, transferType, flightTime)]
    ELSE ResultFromBranch(transferType, TransferBranch(transferType, flightTime))

\* TrajectoryEngine.generateTrajectoryRecord
generateTrajectoryRecord(missionId, name, type, launchWindow, result) ==
  [missionId |-> missionId, decisionId |-> "null", name |-> name, type |-> type,
   launchWindow |-> launchWindow,
   totalDeltaV |-> result.totalDeltaV, flightTime |-> result.flightTime,
   fuelMass |-> result.fuelMass, efficiency |-> result.efficiency,
   trajectoryPoints |-> result.trajectoryPoints,
   orbitalElements |-> result.orbitalElements,
   riskFactors |-> result.riskFactors,
   calculations |-> result.calculations,
   isActive |-> FALSE]

(***************************************************************************)
(* storage.ts: the trajectories of PostgresStorage and InMemoryStorage     *)
(*                                                                         *)
(* A stored state maps trajectory ids to rows [missionId, isActive].       *)
(* PostgresStorage runs setActiveTrajectory as one READ COMMITTED          *)
(* transaction: an UPDATE locks the rows it writes until the transaction   *)
(* ends, waits while another transaction holds one of them, and its writes *)
(* are seen by other sessions only once the transaction has committed.     *)
(* The locks of one statement are taken in one step.  InMemoryStorage      *)
(* runs setActiveTrajectory without an await, so as one step.              *)
(***************************************************************************)
Missions == {"m1", "m2"}
TrajectoryIds == {"t1", "t2", "t3"}
\* The ids a request can name: the stored ones and one that is not stored.
RequestedIds == TrajectoryIds \cup {"t9"}
Callers == {"c1", "c2"}
MissionOfRow(t) == IF t = "t3" THEN "m2" ELSE "m1"

\* f overridden by g where g is defined.
Overlay(f, g) ==
  [x \in (DOMAIN f) \cup (DOMAIN g) |-> IF x \in DOMAIN g THEN g[x] ELSE f[x]]

\* The empty write set.
NoWrites == [t \in {} |-> FALSE]

\* getTrajectoriesByMission: the rows of the mission, with their flags.
getTrajectoriesByMission(rs, missionId) ==
  {[id |-> t, isActive |-> rs[t].isActive] :
     t \in {x \in DOMAIN rs : rs[x].missionId = missionId}}

\* getActiveTrajectoryForMission: the ids it can return (limit 1 takes any
\* one of them), none when the set is empty.
getActiveTrajectoryForMission(rs, missionId) ==
  {t \in DOMAIN rs : rs[t].missionId = missionId /\ rs[t].isActive = TRUE}

\* getTrajectory
getTrajectory(rs, id) ==
  IF id \in DOMAIN rs THEN [found |-> TRUE, missionId |-> rs[id].missionId]
  ELSE [found |-> FALSE, missionId |-> "none"]

\* InMemoryStorage.setActiveTrajectory without its test of t.missionId.
MemSetActiveEveryMission(rs, missionId, trajectoryId) ==
  [rows |-> [t \in DOMAIN rs |-> [rs[t] EXCEPT !.isActive = (t = trajectoryId)]],
   changed |-> \E t \in DOMAIN rs : rs[t].missionId = missionId /\ t = trajectoryId]

\* InMemoryStorage.setActiveTrajectory without its else branch.
MemSetActiveKeepsOthers(rs, missionId, trajectoryId) ==
  [rows |-> [t \in DOMAIN rs |->
               IF rs[t].missionId = missionId /\ t = trajectoryId
                 THEN [rs[t] EXCEPT !.isActive = TRUE] ELSE rs[t]],
   changed |-> \E t \in DOMAIN rs : rs[t].missionId = missionId /\ t = trajectoryId]

\* InMemoryStorage.setActiveTrajectory: the map after the loop, and the
\* value returned.
MemSetActiveTrajectory(rs, missionId, trajectoryId) ==
  [rows |-> [t \in DOMAIN rs |->
               IF rs[t].missionId = missionId
                 THEN [rs[t] EXCEPT !.isActive = (t = trajectoryId)]
                 ELSE rs[t]],
   changed |-> \E t \in DOMAIN rs : rs[t].missionId = missionId /\ t = trajectoryId]

\* The rows an UPDATE ... WHERE missionId = m [AND id = t] writes.
RowsOfMission(db, missionId) == {t \in DOMAIN db.rows : db.rows[t].missionId = missionId}
RowOfMissionWithId(db, missionId, trajectoryId) ==
  {t \in RowsOfMission(db, missionId) : t = trajectoryId}

\* The statement of transaction c waits: another transaction holds a lock
\* on a row it writes.
PgBlocked(db, c, targets) == \E t \in targets : db.lock[t] \notin {"free", c}

\* An UPDATE issued on the connection instead of the transaction: its
\* writes are committed at once and it keeps no lock.
PgStatementAutocommit(db, c, targets, value) ==
  [db EXCEPT !.rows = [t \in DOMAIN db.rows |->
                         IF t \in targets THEN [db.rows[t] EXCEPT !.isActive = value]
                         ELSE db.rows[t]]]

\* tx.update(trajectories).set({isActive: value}) on the rows targets.
PgStatement(db, c, targets, value) ==
  [db EXCEPT !.lock = [t \in DOMAIN db.lock |-> IF t \in targets THEN c ELSE db.lock[t]],
             !.pending[c] = Overlay(db.pending[c], [t \in targets |-> value])]

\* The end of db.transaction: the writes are committed, the locks released.
PgCommit(db, c) ==
  [rows |-> [t \in DOMAIN db.rows |->
               IF t \in DOMAIN db.pending[c]
                 THEN [db.rows[t] EXCEPT !.isActive = db.pending[c][t]]
                 ELSE db.rows[t]],
   lock |-> [t \in DOMAIN db.lock |-> IF db.lock[t] = c THEN "free" ELSE db.lock[t]],
   pending |-> [db.pending EXCEPT ![c] = NoWrites]]

(***************************************************************************)
(* State                                                                   *)
(***************************************************************************)
VARIABLES
  impl,          \* "pg" (DATABASE_URL set) or "mem": the class behind storage
  rows,          \* the stored trajectories: committed rows, or the Map
  lock,          \* Postgres row locks: the transaction holding each row
  pending,       \* Postgres: the uncommitted writes of each transaction
  call,          \* each caller's activation request or setActiveTrajectory call
  planReq,       \* planning route: the request received
  planPc,        \* planning route: where the handler stands
  planResult,    \* planning route: what the engine returned or threw
  planRaised,    \* planning route: what the component the engine ran threw
  stored,        \* planning route: the records createTrajectory has stored
  planStatus,    \* planning route: the HTTP status answered
  engineIn,      \* a direct engine call: its arguments
  engineOut,     \* a direct engine call: generateEarthMoonTrajectory's outcome
  patchedConic,  \* a direct call: calculateEarthMoonTransfer's return value
  lamIn,         \* LambertSolver.solve: its arguments
  lamPc,         \* LambertSolver.solve: where the call stands
  lamEntry,      \* LambertSolver.solve: the outcome of the entry checks
  lamSt,         \* IzzoSolver.solveForX: x, iterations, converged
  lamOut,        \* LambertSolver.solve: what it returned or threw
  loiIn,         \* LunarOrbitInsertion.calculateOptimalLOI: its arguments
  loiOut,        \* calculateOptimalLOI: its outcome and the two strategies
  fuelIn,        \* FuelOptimizer.calculate: its arguments
  fuelOut,       \* FuelOptimizer.calculate: what it returned or threw
  hohIn,         \* HohmannTransfer.calculate: its arguments
  hohOut,        \* HohmannTransfer.calculate: what it returned or threw
  regImpl,       \* registration: the class behind storage, "pg" or "mem"
  users,         \* registration: the stored users
  reg,           \* registration: each POST /api/register request
  memStore,      \* an InMemoryStorage: its missions and trajectories maps
  pgStore,       \* a PostgresStorage given the same calls: its tables
  lastOp,        \* the last call made on both, and what each returned
  plannerState,  \* AutonomousPlanner: plannerState
  pollRef,       \* AutonomousPlanner: pollRef.current
  timers,        \* AutonomousPlanner: the interval timers not yet cleared
  run,           \* AutonomousPlanner: the runPipeline call under way
  finished,      \* AutonomousPlanner: the runs that have finished, in order
  logsFrom,      \* AutonomousPlanner: who last replaced the log list
  mounted        \* AutonomousPlanner: the component is mounted

storageVars == <<impl, rows, lock, pending, call>>
planVars == <<planReq, planPc, planResult, planRaised, stored, planStatus>>
engineVars == <<engineIn, engineOut, patchedConic>>
lambertVars == <<lamIn, lamPc, lamEntry, lamSt, lamOut>>
loiVars == <<loiIn, loiOut>>
fuelVars == <<fuelIn, fuelOut>>
hohmannVars == <<hohIn, hohOut>>
registerVars == <<regImpl, users, reg>>
twinVars == <<memStore, pgStore, lastOp>>
plannerVars == <<plannerState, pollRef, timers, run, finished, logsFrom, mounted>>
serviceVars == <<registerVars, twinVars, plannerVars>>
serverVars == <<storageVars, planVars, engineVars, lambertVars, loiVars, fuelVars, hohmannVars>>
componentVars == <<loiVars, fuelVars, hohmannVars, serviceVars>>
vars == <<storageVars, planVars, engineVars, lambertVars, componentVars>>

NotYet == [thrown |-> "pending"]

(***************************************************************************)
(* Activating a trajectory: routes.ts, POST .../trajectories/:id/activate, *)
(* and storage.setActiveTrajectory                                         *)
(***************************************************************************)
IdleCall ==
  [pc |-> "idle", kind |-> "none", missionId |-> "none", trajectoryId |-> "none",
   updated |-> 0, result |-> "none", status |-> 0, before |-> {}, raced |-> FALSE]

InitStorage ==
  /\ impl \in {"pg", "mem"}
  /\ rows \in [TrajectoryIds -> {[missionId |-> m, isActive |-> a] :
                                   m \in Missions, a \in BOOLEAN}]
  /\ \A t \in TrajectoryIds : rows[t].missionId = MissionOfRow(t)
  /\ lock = [t \in TrajectoryIds |-> "free"]
  /\ pending = [c \in Callers |-> NoWrites]
  /\ call = [c \in Callers |-> IdleCall]

DbState == [rows |-> rows, lock |-> lock, pending |-> pending]

\* A call is between its invocation and its return.
InFlight(c) == call[c].pc \in {"call", "deactivated", "activated"}

\* The route receives POST /api/missions/m/trajectories/t/activate.
RouteActivate(c, m, t) ==
  /\ call[c].pc = "idle"
  /\ call' = [call EXCEPT ![c] = [@ EXCEPT !.pc = "get", !.kind = "route",
                                           !.missionId = m, !.trajectoryId = t]]
  /\ UNCHANGED <<impl, rows, lock, pending>>
  /\ UNCHANGED <<planVars, engineVars, lambertVars, componentVars>>

\* await storage.getTrajectory(trajectoryId), and the 404 answer.
RouteGetTrajectory(c) ==
  /\ call[c].pc = "get"
  /\ LET trajectory == getTrajectory(rows, call[c].trajectoryId)
     IN IF ~trajectory.found \/ trajectory.missionId # call[c].missionId
          THEN call' = [call EXCEPT ![c] = [@ EXCEPT !.pc = "done", !.status = 404]]
          ELSE call' = [call EXCEPT ![c] = [@ EXCEPT !.pc = "call"]]
  /\ UNCHANGED <<impl, rows, lock, pending>>
  /\ UNCHANGED <<planVars, engineVars, lambertVars, componentVars>>

\* storage.setActiveTrajectory(m, t) called on the exported storage object,
\* without the check the route makes first.
DirectCall(c, m, t) ==
  /\ call[c].pc = "idle"
  /\ call' = [call EXCEPT ![c] = [@ EXCEPT !.pc = "call", !.kind = "direct",
                                           !.missionId = m, !.trajectoryId = t]]
  /\ UNCHANGED <<impl, rows, lock, pending>>
  /\ UNCHANGED <<planVars, engineVars, lambertVars, componentVars>>

\* InMemoryStorage.setActiveTrajectory, called and returned.
MemSetActive(c) ==
  /\ impl = "mem"
  /\ call[c].pc = "call"
  /\ LET r == MemSetActiveTrajectory(rows, call[c].missionId, call[c].trajectoryId)
     IN /\ rows' = r.rows
        /\ call' = [call EXCEPT ![c] =
                      [@ EXCEPT !.pc = "returned",
                                !.result = IF r.changed THEN "true" ELSE "false",
                                !.before = getActiveTrajectoryForMission(rows, call[c].missionId),
                                !.raced = \E d \in Callers \ {c} :
                                            InFlight(d) /\ call[d].missionId = call[c].missionId]]
  /\ UNCHANGED <<impl, lock, pending>>
  /\ UNCHANGED <<planVars, engineVars, lambertVars, componentVars>>

\* PostgresStorage.setActiveTrajectory: the first UPDATE of the transaction.
PgDeactivate(c) ==
  /\ impl = "pg"
  /\ call[c].pc = "call"
  /\ LET targets == RowsOfMission(DbState, call[c].missionId)
         db == PgStatement(DbState, c, targets, FALSE)
     IN /\ ~PgBlocked(DbState, c, targets)
        /\ rows' = db.rows
        /\ lock' = db.lock
        /\ pending' = db.pending
  /\ call' = [call EXCEPT ![c] =
                [@ EXCEPT !.pc = "deactivated",
                          !.before = getActiveTrajectoryForMission(rows, call[c].missionId)]]
  /\ UNCHANGED impl
  /\ UNCHANGED <<planVars, engineVars, lambertVars, componentVars>>

\* PostgresStorage.setActiveTrajectory: the second UPDATE, with returning().
PgActivate(c) ==
  /\ impl = "pg"
  /\ call[c].pc = "deactivated"
  /\ LET targets == RowOfMissionWithId(DbState, call[c].missionId, call[c].trajectoryId)
         db == PgStatement(DbState, c, targets, TRUE)
     IN /\ ~PgBlocked(DbState, c, targets)
        /\ rows' = db.rows
        /\ lock' = db.lock
        /\ pending' = db.pending
        /\ call' = [call EXCEPT ![c] = [@ EXCEPT !.pc = "activated",
                                                 !.updated = Cardinality(targets)]]
  /\ UNCHANGED impl
  /\ UNCHANGED <<planVars, engineVars, lambertVars, componentVars>>

\* PostgresStorage.setActiveTrajectory: the transaction commits and the
\* call returns updateResult.length > 0.
PgReturn(c) ==
  /\ impl = "pg"
  /\ call[c].pc = "activated"
  /\ LET db == PgCommit(DbState, c)
     IN /\ rows' = db.rows
        /\ lock' = db.lock
        /\ pending' = db.pending
  /\ call' = [call EXCEPT ![c] =
                [@ EXCEPT !.pc = "returned",
                          !.result = IF call[c].updated > 0 THEN "true" ELSE "false",
                          !.raced = \E d \in Callers \ {c} :
                                      InFlight(d) /\ call[d].missionId = call[c].missionId]]
  /\ UNCHANGED impl
  /\ UNCHANGED <<planVars, engineVars, lambertVars, componentVars>>

\* The route answers 200, or 400 when setActiveTrajectory returned false.
RouteRespond(c) ==
  /\ call[c].pc = "returned"
  /\ call[c].kind = "route"
  /\ call' = [call EXCEPT ![c] =
                [@ EXCEPT !.pc = "done",
                          !.status = IF call[c].result = "true" THEN 200 ELSE 400]]
  /\ UNCHANGED <<impl, rows, lock, pending>>
  /\ UNCHANGED <<planVars, engineVars, lambertVars, componentVars>>

NextStorage ==
  \E c \in Callers :
    \/ \E m \in Missions, t \in RequestedIds : RouteActivate(c, m, t)
    \/ \E m \in Missions, t \in RequestedIds : DirectCall(c, m, t)
    \/ RouteGetTrajectory(c)
    \/ MemSetActive(c)
    \/ PgDeactivate(c)
    \/ PgActivate(c)
    \/ PgReturn(c)
    \/ RouteRespond(c)

InitStorageIdle ==
  /\ impl = "mem"
  /\ rows = [t \in TrajectoryIds |-> [missionId |-> MissionOfRow(t), isActive |-> FALSE]]
  /\ lock = [t \in TrajectoryIds |-> "free"]
  /\ pending = [c \in Callers |-> NoWrites]
  /\ call = [c \in Callers |-> IdleCall]

(***************************************************************************)
(* Planning a trajectory: routes.ts, POST /api/missions/:id/trajectories   *)
(***************************************************************************)
\* The missions storage.getMission finds.
ExistingMissions == {"m1"}

BodyNames == {"Direct transfer", ""}
BodyTypes == {"hohmann", "lambert", "bi_elliptic", "custom", "warp"}
BodyFlightTimes == {Dec(5, -1), One, Num(30), Num(72), Num(186), Num(720), Num(721)}

\* trajectoryInput.parse: a ZodError, or the validated value.
trajectoryInputParse(body) ==
  IF \/ body.name = ""
     \/ body.type \notin {"hohmann", "lambert", "bi_elliptic", "custom"}
     \/ ~isFinite(body.flightTime)
     \/ FLt(body.flightTime, One)
     \/ FGt(body.flightTime, Num(720))
    THEN [thrown |-> "ZodError"]
    ELSE [thrown |-> "none", name |-> body.name, type |-> body.type,
          launchWindow |-> NewDate(body.launchWindow),
          flightTime |-> body.flightTime]

\* The catch block of the route: the status it answers for an error.
PlanCatchStatus(error) == IF error = "ZodError" THEN 400 ELSE 500

\* storage.createTrajectory: the store with the record added under a new id.
createTrajectory(store, record) ==
  Append(store, [id |-> Len(store) + 1, record |-> record])

\* What the component the engine runs for a valid request throws: the
\* Lambert solver or the patched-conic model, then the fuel optimizer.
RaisedAfterBranch(br) ==
  IF br.thrown # "none" THEN br.thrown
  ELSE FuelOptimizer_calculate(br.totalDeltaV, SPACECRAFT_DRY_MASS, SPECIFIC_IMPULSE,
                               DEFAULT_THRUST_TO_WEIGHT).thrown
ComponentRaised(transferType, flightTime) ==
  RaisedAfterBranch(
    IF transferType = "lambert"
      THEN LambertAssigned(flightTime,
             LambertSolver_solve(EngineR1, EngineR2, hoursToSeconds(flightTime),
                                 MU_EARTH, TRUE, 0))
    ELSE IF transferType = "hohmann" THEN HohmannAssigned(calculateEarthMoonTransfer)
    ELSE NoBranch(flightTime))

InitPlan ==
  /\ planReq \in [missionId : {"m1", "m0"}, name : BodyNames, type : BodyTypes,
                  launchWindow : {"2025-06-01T00:00:00.000Z", "not-a-date"},
                  flightTime : BodyFlightTimes]
  /\ planPc = "received"
  /\ planResult = NotYet
  /\ planRaised = "pending"
  /\ stored = <<>>
  /\ planStatus = 0

InitPlanIdle ==
  /\ planReq = [missionId |-> "m1", name |-> "", type |-> "hohmann",
                launchWindow |-> "not-a-date", flightTime |-> One]
  /\ planPc = "done"
  /\ planResult = NotYet
  /\ planRaised = "pending"
  /\ stored = <<>>
  /\ planStatus = 0

validated == trajectoryInputParse(planReq)

\* trajectoryInput.parse(...) and, on a ZodError, the catch block.
PlanValidate ==
  /\ planPc = "received"
  /\ IF validated.thrown # "none"
       THEN planPc' = "done" /\ planStatus' = PlanCatchStatus(validated.thrown)
       ELSE planPc' = "validated" /\ planStatus' = planStatus
  /\ UNCHANGED <<planReq, planResult, planRaised, stored>>
  /\ UNCHANGED <<storageVars, engineVars, lambertVars, componentVars>>

\* await storage.getMission(missionId), and the 404 answer.
PlanGetMission ==
  /\ planPc = "validated"
  /\ IF planReq.missionId \notin ExistingMissions
       THEN planPc' = "done" /\ planStatus' = 404
       ELSE planPc' = "engine" /\ planStatus' = planStatus
  /\ UNCHANGED <<planReq, planResult, planRaised, stored>>
  /\ UNCHANGED <<storageVars, engineVars, lambertVars, componentVars>>

\* TrajectoryEngine.generateEarthMoonTrajectory(...) and, when it throws,
\* the catch block.
PlanEngine ==
  /\ planPc = "engine"
  /\ planResult' = generateEarthMoonTrajectory(validated.launchWindow, validated.type,
                                               validated.flightTime)
  /\ planRaised' =
       IF /\ ~isNaN(validated.launchWindow.time)
          /\ validateMissionTime(validated.flightTime) = "none"
          /\ validated.type \in validTypes
         THEN ComponentRaised(validated.type, validated.flightTime)
         ELSE "none"
  /\ IF planResult'.thrown # "none"
       THEN planPc' = "done" /\ planStatus' = PlanCatchStatus(planResult'.thrown)
       ELSE planPc' = "record" /\ planStatus' = planStatus
  /\ UNCHANGED <<planReq, stored>>
  /\ UNCHANGED <<storageVars, engineVars, lambertVars, componentVars>>

\* generateTrajectoryRecord, await storage.createTrajectory, the 201 answer.
PlanCreateTrajectory ==
  /\ planPc = "record"
  /\ stored' = createTrajectory(stored,
                 generateTrajectoryRecord(planReq.missionId, validated.name,
                                          validated.type, validated.launchWindow,
                                          planResult))
  /\ planPc' = "done"
  /\ planStatus' = 201
  /\ UNCHANGED <<planReq, planResult, planRaised>>
  /\ UNCHANGED <<storageVars, engineVars, lambertVars, componentVars>>

NextPlan ==
  \/ PlanValidate
  \/ PlanGetMission
  \/ PlanEngine
  \/ PlanCreateTrajectory

(***************************************************************************)
(* The engine called directly                                              *)
(***************************************************************************)
EngineFlightTimes ==
  {Dec(5, -2), Dec(1, -1), One, Num(30), Num(72), Num(186), Dec(18623, -2),
   Num(8760), Num(8761), Num(9000)}

InitEngine ==
  /\ engineIn \in [launchDate : {"2025-06-01T00:00:00.000Z", "not-a-date"},
                   transferType : {"hohmann", "lambert", "bi_elliptic", "custom"},
                   flightTime : EngineFlightTimes]
  /\ engineOut = NotYet
  /\ patchedConic = NotYet

InitEngineIdle ==
  /\ engineIn = [launchDate |-> "not-a-date", transferType |-> "custom",
                 flightTime |-> One]
  /\ engineOut = [thrown |-> "idle"]
  /\ patchedConic = [thrown |-> "idle"]

\* TrajectoryEngine.generateEarthMoonTrajectory(launchDate, type, flightTime)
CallGenerate ==
  /\ engineOut = NotYet
  /\ engineOut' = generateEarthMoonTrajectory(NewDate(engineIn.launchDate),
                                              engineIn.transferType, engineIn.flightTime)
  /\ UNCHANGED <<engineIn, patchedConic>>
  /\ UNCHANGED <<storageVars, planVars, lambertVars, componentVars>>

\* HohmannTransfer.calculateEarthMoonTransfer()
CallCalculateEarthMoonTransfer ==
  /\ patchedConic = NotYet
  /\ patchedConic' = calculateEarthMoonTransfer
  /\ UNCHANGED <<engineIn, engineOut>>
  /\ UNCHANGED <<storageVars, planVars, lambertVars, componentVars>>

NextEngine ==
  \/ CallGenerate
  \/ CallCalculateEarthMoonTransfer

(***************************************************************************)
(* LambertSolver.solve, one pass of the Householder loop per step          *)
(***************************************************************************)
Vec(x, y, z) == Vector3D(x, y, z)

\* Requests around a 7000 km orbit: equal, nearly equal and null positions,
\* a quarter and a half turn; times of flight and mu of either sign.
NearOrbitInputs ==
  [r1 : {Vec(Num(7000), Zero, Zero)},
   r2 : {Vec(Num(7000), Zero, Zero), Vec(Num(7000), Dec(1, -7), Zero),
         Vec(Zero, Zero, Zero), Vec(Zero, Num(8000), Zero),
         Vec(Num(-8000), Zero, Zero)},
   timeOfFlight : {Num(3600), Num(300), Zero, Num(-10)},
   mu : {MU_EARTH, Zero},
   prograde : BOOLEAN,
   multiRevs : {0, 1}]

\* The requests the engine makes, for flight times of 10 to 400 hours.
EarthMoonInputs ==
  [r1 : {EngineR1}, r2 : {EngineR2},
   timeOfFlight : {hoursToSeconds(Num(10)), hoursToSeconds(Num(72)),
                   hoursToSeconds(Num(186)), hoursToSeconds(Num(400))},
   mu : {MU_EARTH}, prograde : {TRUE}, multiRevs : {0}]

\* A quarter turn with a time of flight of 1e8 seconds, for which the
\* normalised time is above 44217 and the initial guess above 50.
LongFlightInputs ==
  [r1 : {Vec(Num(7000), Zero, Zero)}, r2 : {Vec(Zero, Num(8000), Zero)},
   timeOfFlight : {Num(100000000)},
   mu : {MU_EARTH}, prograde : {TRUE}, multiRevs : {0}]

LambertInputs == NearOrbitInputs \cup EarthMoonInputs \cup LongFlightInputs

InitLambert ==
  /\ lamIn \in LambertInputs
  /\ lamPc = "entry"
  /\ lamEntry = NotYet
  /\ lamSt = NotYet
  /\ lamOut = NotYet

InitLambertIdle ==
  /\ lamIn = [r1 |-> EngineR1, r2 |-> EngineR2, timeOfFlight |-> Zero,
              mu |-> MU_EARTH, prograde |-> TRUE, multiRevs |-> 0]
  /\ lamPc = "idle"
  /\ lamEntry = NotYet
  /\ lamSt = NotYet
  /\ lamOut = NotYet

\* solve up to the call of solveForX and its initial guess.
LambertEnter ==
  /\ lamPc = "entry"
  /\ lamEntry' = LambertEntry(lamIn.r1, lamIn.r2, lamIn.timeOfFlight, lamIn.mu,
                              lamIn.prograde, lamIn.multiRevs)
  /\ IF lamEntry'.thrown # "none"
       THEN /\ lamPc' = "done"
            /\ lamOut' = [thrown |-> lamEntry'.thrown]
            /\ lamSt' = lamSt
       ELSE /\ lamPc' = "iterate"
            /\ lamOut' = lamOut
            /\ lamSt' = solveForXStart(lamEntry'.lambda, lamEntry'.T)
  /\ lamIn' = lamIn
  /\ UNCHANGED <<storageVars, planVars, engineVars, componentVars>>

\* One pass of the while loop of solveForX.
HouseholderStep ==
  /\ lamPc = "iterate"
  /\ LoopRuns(lamSt, maxIterations)
  /\ lamSt' = HouseholderPass(lamSt, lamEntry.lambda, lamEntry.T, tolerance)
  /\ UNCHANGED <<lamIn, lamPc, lamEntry, lamOut>>
  /\ UNCHANGED <<storageVars, planVars, engineVars, componentVars>>

\* The loop is left: solveForX throws or returns x, and solve finishes.
LambertExit ==
  /\ lamPc = "iterate"
  /\ ~LoopRuns(lamSt, maxIterations)
  /\ LET sx == solveForXEnd(lamSt)
         fin == LambertFinish(lamEntry, sx.x, lamIn.r1, lamIn.r2,
                              lamIn.timeOfFlight, lamIn.mu)
     IN lamOut' = IF sx.thrown # "none" THEN [thrown |-> sx.thrown]
                  ELSE IF fin.thrown # "none" THEN [thrown |-> fin.thrown]
                  ELSE [thrown |-> "none",
                        result |-> LambertResult(fin, lamIn.prograde),
                        determinant |-> fin.determinant]
  /\ lamPc' = "done"
  /\ UNCHANGED <<lamIn, lamEntry, lamSt>>
  /\ UNCHANGED <<storageVars, planVars, engineVars, componentVars>>

NextLambert ==
  \/ LambertEnter
  \/ HouseholderStep
  \/ LambertExit

(***************************************************************************)
(* The components called directly                                          *)
(***************************************************************************)
\* ---- LunarOrbitInsertion.calculateOptimalLOI, called directly ----------
LOIVelocities == {Zero, Dec(5, -1), One, Dec(25, -1), Num(5), Num(6), FNeg(One), NaN}
LOIRadii ==
  {Num(1737), Num(1738), Num(1837), Num(2000), Num(5000), Num(17370), Num(17371),
   Num(1000), NaN}
LOIPeriapses ==
  {[defined |-> FALSE, value |-> Zero],
   [defined |-> TRUE, value |-> Zero],
   [defined |-> TRUE, value |-> Num(1800)],
   [defined |-> TRUE, value |-> FNeg(Num(200000))]}
LOIRequests == [v_infinity : LOIVelocities, r_target : LOIRadii, r_periapsis : LOIPeriapses]

NoLOIRequest == [v_infinity |-> Zero, r_target |-> Zero,
                 r_periapsis |-> [defined |-> FALSE, value |-> Zero]]
InitLOI == loiIn \in LOIRequests /\ loiOut = NotYet
InitLOIIdle == loiIn = NoLOIRequest /\ loiOut = NotYet

CallOptimalLOI ==
  /\ loiOut = NotYet
  /\ loiOut' = calculateOptimalLOI(loiIn.v_infinity, loiIn.r_target, loiIn.r_periapsis)
  /\ UNCHANGED <<loiIn, storageVars, planVars, engineVars, lambertVars, fuelVars,
                 hohmannVars, serviceVars>>

\* The two strategies of the call, as calculateOptimalLOI evaluates them.
CallDirect == calculateDirectInsertion(loiIn.v_infinity, loiIn.r_target)
CallCapture ==
  calculateCaptureOrbitInsertion(loiIn.v_infinity, loiIn.r_target,
    PeriapsisOr(loiIn.r_periapsis,
                getOptimalPeriapsis(loiIn.v_infinity, loiIn.r_target)))

NextLOI == CallOptimalLOI

\* ---- FuelOptimizer.calculate, called directly ---------------------------
FuelDeltaVs == {Zero, Dec(5, -1), Three, Num(12), Num(20), Num(21), FNeg(One), NaN, PInf}
FuelDryMasses == {Num(5000), Num(100), Zero, NaN}
FuelImpulses == {Num(450), Num(300), Zero, PInf}
FuelThrustToWeights == {Dec(3, -1), One, Two, Dec(21, -1), Zero, Dec(1, -3), NaN}
FuelRequests ==
  [deltaV : FuelDeltaVs, dryMass : FuelDryMasses, specificImpulse : FuelImpulses,
   thrustToWeightRatio : FuelThrustToWeights]

NoFuelRequest == [deltaV |-> Zero, dryMass |-> Zero, specificImpulse |-> Zero,
                  thrustToWeightRatio |-> Zero]
InitFuel == fuelIn \in FuelRequests /\ fuelOut = NotYet
InitFuelIdle == fuelIn = NoFuelRequest /\ fuelOut = NotYet

CallFuelOptimizer ==
  /\ fuelOut = NotYet
  /\ fuelOut' = FuelOptimizer_calculate(fuelIn.deltaV, fuelIn.dryMass,
                                        fuelIn.specificImpulse,
                                        fuelIn.thrustToWeightRatio)
  /\ UNCHANGED <<fuelIn, storageVars, planVars, engineVars, lambertVars, loiVars,
                 hohmannVars, serviceVars>>

NextFuel == CallFuelOptimizer

\* ---- HohmannTransfer, called directly -----------------------------------
HohmannRadii ==
  {Num(6556), Num(6571), Num(7000), Num(42164), Num(384400), Num(1837), Num(66100)}
HohmannMus == {MU_EARTH, MU_MOON}
HohmannRequests == [r1 : HohmannRadii, r2 : HohmannRadii, mu : HohmannMus]

NoHohmannRequest == [r1 : {Zero}, r2 : {Zero}, mu : {Zero}]
InitHohmann ==
  /\ hohIn \in HohmannRequests
  /\ hohOut = [calculate |-> NotYet, earthMoon |-> NotYet]
InitHohmannIdle ==
  /\ hohIn \in NoHohmannRequest
  /\ hohOut = [calculate |-> NotYet, earthMoon |-> NotYet]

CallHohmannCalculate ==
  /\ hohOut.calculate = NotYet
  /\ hohOut' = [hohOut EXCEPT
                  !.calculate = HohmannTransfer_calculate(hohIn.r1, hohIn.r2, hohIn.mu)]
  /\ UNCHANGED <<hohIn, storageVars, planVars, engineVars, lambertVars, loiVars,
                 fuelVars, serviceVars>>

CallEarthMoonTransfer ==
  /\ hohOut.earthMoon = NotYet
  /\ hohOut' = [hohOut EXCEPT !.earthMoon = calculateEarthMoonTransfer]
  /\ UNCHANGED <<hohIn, storageVars, planVars, engineVars, lambertVars, loiVars,
                 fuelVars, serviceVars>>

NextHohmann == CallHohmannCalculate \/ CallEarthMoonTransfer
(***************************************************************************)
(* routes.ts, POST /api/register, with storage.getUserByUsername and       *)
(* storage.createUser                                                      *)
(***************************************************************************)
Registrants == {"q1", "q2"}
Usernames == {"", "alice", "bob"}
Passwords == {"", "short", "correct-horse"}
StoredBefore == {{}, {[id |-> "u0", username |-> "alice"]}}

IdleRequest == [pc |-> "idle", username |-> "", existing |-> FALSE, status |-> 0]

\* getUserByUsername: whether a stored user has the name.
getUserByUsername(us, username) == \E u \in us : u.username = username

\* The two checks of the request body: 400, or 0 when both pass.
RegisterBodyStatus(username, password) ==
  IF username = "" \/ password = "" THEN 400
  ELSE IF Len(password) < 8 THEN 400
  ELSE 0

\* InMemoryStorage.createUser after the hash: users.set under a new id.
MemCreateUser(us, id, username) ==
  [users |-> us \cup {[id |-> id, username |-> username]}, thrown |-> FALSE]

\* PostgresStorage.createUser after the hash: the INSERT, refused by the
\* unique constraint on username when the name is stored already.
PgCreateUser(us, id, username) ==
  IF getUserByUsername(us, username) THEN [users |-> us, thrown |-> TRUE]
  ELSE [users |-> us \cup {[id |-> id, username |-> username]}, thrown |-> FALSE]

InitRegister ==
  /\ regImpl \in {"pg", "mem"}
  /\ users \in StoredBefore
  /\ reg = [c \in Registrants |-> IdleRequest]
InitRegisterIdle ==
  /\ regImpl = "mem"
  /\ users = {}
  /\ reg = [c \in Registrants |-> IdleRequest]

\* The handler runs to its first await: the checks of the body, and in
\* InMemoryStorage the lookup, which the async method makes when called.
RegisterReceive(c, username, password) ==
  /\ reg[c].pc = "idle"
  /\ reg' = [reg EXCEPT ![c] =
               IF RegisterBodyStatus(username, password) # 0
                 THEN [@ EXCEPT !.pc = "done", !.username = username,
                                !.status = RegisterBodyStatus(username, password)]
               ELSE IF regImpl = "mem"
                 THEN [@ EXCEPT !.pc = "checked", !.username = username,
                                !.existing = getUserByUsername(users, username)]
               ELSE [@ EXCEPT !.pc = "query", !.username = username]]
  /\ UNCHANGED <<regImpl, users, twinVars, plannerVars, serverVars>>

\* PostgresStorage.getUserByUsername: the SELECT.
RegisterQuery(c) ==
  /\ reg[c].pc = "query"
  /\ reg' = [reg EXCEPT ![c] = [@ EXCEPT !.pc = "checked",
                                         !.existing = getUserByUsername(users, reg[c].username)]]
  /\ UNCHANGED <<regImpl, users, twinVars, plannerVars, serverVars>>

\* if (existingUser) return 409; otherwise createUser is called and awaits
\* bcrypt.hash.
RegisterChecked(c) ==
  /\ reg[c].pc = "checked"
  /\ reg' = [reg EXCEPT ![c] =
               IF reg[c].existing THEN [@ EXCEPT !.pc = "done", !.status = 409]
               ELSE [@ EXCEPT !.pc = "hash"]]
  /\ UNCHANGED <<regImpl, users, twinVars, plannerVars, serverVars>>

\* createUser stores the user and the handler answers 201, or 500 from its
\* catch when createUser threw.
RegisterStore(c) ==
  /\ reg[c].pc = "hash"
  /\ LET r == IF regImpl = "mem" THEN MemCreateUser(users, c, reg[c].username)
              ELSE PgCreateUser(users, c, reg[c].username)
     IN /\ users' = r.users
        /\ reg' = [reg EXCEPT ![c] = [@ EXCEPT !.pc = "done",
                                               !.status = IF r.thrown THEN 500 ELSE 201]]
  /\ UNCHANGED <<regImpl, twinVars, plannerVars, serverVars>>

NextRegister ==
  \E c \in Registrants :
    \/ \E username \in Usernames, password \in Passwords :
         RegisterReceive(c, username, password)
    \/ RegisterQuery(c)
    \/ RegisterChecked(c)
    \/ RegisterStore(c)

(***************************************************************************)
(* storage.ts: InMemoryStorage and PostgresStorage given the same calls of *)
(* createMission, createTrajectory, setActiveTrajectory and deleteMission  *)
(***************************************************************************)
\* The ids the two stores hand out, in order, and the mission_id values a
\* caller gives to createMission.
MissionPool == <<"ma", "mb">>
TrajectoryPool == <<"ta", "tb">>
MissionCodes == {"ODIN-001", "ODIN-002"}
PoolIds(pool) == {pool[i] : i \in DOMAIN pool}

EmptyStore ==
  [missions |-> <<>>, missionsIssued |-> {}, trajectories |-> <<>>,
   trajectoriesIssued |-> {}]
NoOp == [op |-> "none", arg |-> "none", mem |-> "none", pg |-> "none"]

\* genId() and gen_random_uuid(): the next id of the pool.
NewId(pool, issued) == pool[Cardinality(issued) + 1]
Exhausted(pool, issued) == Cardinality(issued) >= Len(pool)

\* A map or table without the keys in gone, and with one more entry.
Without(f, gone) == [k \in DOMAIN f \ gone |-> f[k]]
With(f, k, v) == [j \in DOMAIN f \cup {k} |-> IF j = k THEN v ELSE f[j]]

\* InMemoryStorage.createMission: missions.set(m.id, m).
MemCreateMission(st, id, code) ==
  [store |-> [st EXCEPT !.missions = With(st.missions, id, code),
                        !.missionsIssued = @ \cup {id}],
   result |-> id]

\* PostgresStorage.createMission: the INSERT, refused when mission_id, which
\* the schema declares unique, is stored already.
PgCreateMission(st, id, code) ==
  IF \E m \in DOMAIN st.missions : st.missions[m] = code
    THEN [store |-> st, result |-> "threw"]
    ELSE [store |-> [st EXCEPT !.missions = With(st.missions, id, code),
                               !.missionsIssued = @ \cup {id}],
          result |-> id]

\* InMemoryStorage.createTrajectory: trajectories.set(rec.id, rec), with
\* isActive false.
MemCreateTrajectory(st, id, missionId) ==
  [store |-> [st EXCEPT !.trajectories =
                          With(st.trajectories, id,
                               [missionId |-> missionId, isActive |-> FALSE]),
                        !.trajectoriesIssued = @ \cup {id}],
   result |-> id]

\* PostgresStorage.createTrajectory: the INSERT, refused when mission_id
\* references no row of missions.
PgCreateTrajectory(st, id, missionId) ==
  IF missionId \notin DOMAIN st.missions
    THEN [store |-> st, result |-> "threw"]
    ELSE [store |-> [st EXCEPT !.trajectories =
                                 With(st.trajectories, id,
                                      [missionId |-> missionId, isActive |-> FALSE]),
                               !.trajectoriesIssued = @ \cup {id}],
          result |-> id]

\* InMemoryStorage.deleteMission: return this.missions.delete(id).
MemDeleteMission(st, id) ==
  [store |-> [st EXCEPT !.missions = Without(st.missions, {id})],
   result |-> id \in DOMAIN st.missions]

\* PostgresStorage.deleteMission: the DELETE, which by the schema's
\* onDelete: "cascade" removes the trajectories of the mission too.
PgDeleteMission(st, id) ==
  [store |-> [st EXCEPT !.missions = Without(st.missions, {id}),
                        !.trajectories =
                          Without(st.trajectories,
                                  {t \in DOMAIN st.trajectories :
                                     st.trajectories[t].missionId = id})],
   result |-> id \in DOMAIN st.missions]

\* UPDATE trajectories SET isActive = v on the rows in targets.
PgUpdateIsActive(rs, targets, v) ==
  [t \in DOMAIN rs |-> IF t \in targets THEN [rs[t] EXCEPT !.isActive = v] ELSE rs[t]]

\* PostgresStorage.setActiveTrajectory when no other transaction runs: the
\* two UPDATEs, and updateResult.length > 0.
PgSetActiveAlone(rs, missionId, trajectoryId) ==
  [rows |-> PgUpdateIsActive(
              PgUpdateIsActive(rs, {t \in DOMAIN rs : rs[t].missionId = missionId}, FALSE),
              {t \in DOMAIN rs : t = trajectoryId /\ rs[t].missionId = missionId}, TRUE),
   changed |-> \E t \in DOMAIN rs : t = trajectoryId /\ rs[t].missionId = missionId]

InitTwin == memStore = EmptyStore /\ pgStore = EmptyStore /\ lastOp = NoOp
InitTwinIdle == InitTwin

TwinCreateMission(code) ==
  /\ ~Exhausted(MissionPool, memStore.missionsIssued)
  /\ ~Exhausted(MissionPool, pgStore.missionsIssued)
  /\ LET m == MemCreateMission(memStore, NewId(MissionPool, memStore.missionsIssued), code)
         p == PgCreateMission(pgStore, NewId(MissionPool, pgStore.missionsIssued), code)
     IN /\ memStore' = m.store
        /\ pgStore' = p.store
        /\ lastOp' = [op |-> "createMission", arg |-> code, mem |-> m.result, pg |-> p.result]
  /\ UNCHANGED <<registerVars, plannerVars, serverVars>>

TwinCreateTrajectory(missionId) ==
  /\ ~Exhausted(TrajectoryPool, memStore.trajectoriesIssued)
  /\ ~Exhausted(TrajectoryPool, pgStore.trajectoriesIssued)
  /\ LET m == MemCreateTrajectory(memStore, NewId(TrajectoryPool, memStore.trajectoriesIssued), missionId)
         p == PgCreateTrajectory(pgStore, NewId(TrajectoryPool, pgStore.trajectoriesIssued), missionId)
     IN /\ memStore' = m.store
        /\ pgStore' = p.store
        /\ lastOp' = [op |-> "createTrajectory", arg |-> missionId, mem |-> m.result, pg |-> p.result]
  /\ UNCHANGED <<registerVars, plannerVars, serverVars>>

TwinSetActive(missionId, trajectoryId) ==
  /\ LET m == MemSetActiveTrajectory(memStore.trajectories, missionId, trajectoryId)
         p == PgSetActiveAlone(pgStore.trajectories, missionId, trajectoryId)
     IN /\ memStore' = [memStore EXCEPT !.trajectories = m.rows]
        /\ pgStore' = [pgStore EXCEPT !.trajectories = p.rows]
        /\ lastOp' = [op |-> "setActiveTrajectory", arg |-> <<missionId, trajectoryId>>,
                      mem |-> m.changed, pg |-> p.changed]
  /\ UNCHANGED <<registerVars, plannerVars, serverVars>>

TwinDeleteMission(id) ==
  /\ LET m == MemDeleteMission(memStore, id)
         p == PgDeleteMission(pgStore, id)
     IN /\ memStore' = m.store
        /\ pgStore' = p.store
        /\ lastOp' = [op |-> "deleteMission", arg |-> id, mem |-> m.result, pg |-> p.result]
  /\ UNCHANGED <<registerVars, plannerVars, serverVars>>

NextTwin ==
  \/ \E code \in MissionCodes : TwinCreateMission(code)
  \/ \E missionId \in PoolIds(MissionPool) : TwinCreateTrajectory(missionId)
  \/ \E missionId \in PoolIds(MissionPool), trajectoryId \in PoolIds(TrajectoryPool) :
       TwinSetActive(missionId, trajectoryId)
  \/ \E id \in PoolIds(MissionPool) : TwinDeleteMission(id)
(***************************************************************************)
(* client/src/components/AutonomousPlanner.tsx: runPipeline and the        *)
(* decision-history polling timer                                          *)
(***************************************************************************)
\* The runs of runPipeline, in the order they are started; the timer a run
\* starts carries the run's name.
RunIds == <<"r1", "r2", "r3">>
Modes == {"local", "backend"}
NoRun == [id |-> "none", mode |-> "none"]
Nobody == [by |-> "none", id |-> "none"]

\* if (pollRef.current) window.clearInterval(pollRef.current)
ClearPolling(live, ref) == IF ref # "null" THEN live \ {ref} ELSE live

\* The end of the backend path: the old timer is cleared, a new one is set.
StartPolling(live, ref, id) == ClearPolling(live, ref) \cup {id}

InitPlanner ==
  /\ plannerState = "idle"
  /\ pollRef = "null"
  /\ timers = {}
  /\ run = NoRun
  /\ finished = <<>>
  /\ logsFrom = Nobody
  /\ mounted = TRUE
InitPlannerIdle == InitPlanner

\* The button, enabled unless plannerState is 'running', calls runPipeline:
\* setPlannerState("running") and setLogs([]).
StartRun(mode) ==
  /\ mounted
  /\ plannerState # "running"
  /\ Len(finished) < Len(RunIds)
  /\ plannerState' = "running"
  /\ run' = [id |-> RunIds[Len(finished) + 1], mode |-> mode]
  /\ logsFrom' = [by |-> "run", id |-> RunIds[Len(finished) + 1]]
  /\ UNCHANGED <<pollRef, timers, finished, mounted>>
  /\ UNCHANGED <<registerVars, twinVars, serverVars>>

\* The local path: the decision is logged, the timer in pollRef is cleared
\* and the run completes.
LocalCompletes ==
  /\ run.mode = "local"
  /\ timers' = ClearPolling(timers, pollRef)
  /\ plannerState' = "completed"
  /\ finished' = Append(finished, run.id)
  /\ run' = NoRun
  /\ UNCHANGED <<pollRef, logsFrom, mounted>>
  /\ UNCHANGED <<registerVars, twinVars, serverVars>>

\* The backend path: a request fails or is answered with an error status,
\* and the catch sets plannerState to 'error'.
BackendFails ==
  /\ run.mode = "backend"
  /\ plannerState' = "error"
  /\ finished' = Append(finished, run.id)
  /\ run' = NoRun
  /\ UNCHANGED <<pollRef, timers, logsFrom, mounted>>
  /\ UNCHANGED <<registerVars, twinVars, serverVars>>

\* The backend path: every request succeeded, polling starts and the run
\* completes.
BackendCompletes ==
  /\ run.mode = "backend"
  /\ timers' = StartPolling(timers, pollRef, run.id)
  /\ pollRef' = run.id
  /\ plannerState' = "completed"
  /\ finished' = Append(finished, run.id)
  /\ run' = NoRun
  /\ UNCHANGED <<logsFrom, mounted>>
  /\ UNCHANGED <<registerVars, twinVars, serverVars>>

\* A live timer fires and its callback calls setLogs(entries).
PollTick(t) ==
  /\ t \in timers
  /\ logsFrom' = [by |-> "timer", id |-> t]
  /\ UNCHANGED <<plannerState, pollRef, timers, run, finished, mounted>>
  /\ UNCHANGED <<registerVars, twinVars, serverVars>>

\* The component unmounts: the effect's cleanup clears the timer in pollRef.
Unmount ==
  /\ mounted
  /\ mounted' = FALSE
  /\ timers' = ClearPolling(timers, pollRef)
  /\ UNCHANGED <<plannerState, pollRef, run, finished, logsFrom>>
  /\ UNCHANGED <<registerVars, twinVars, serverVars>>

NextPlanner ==
  \/ \E mode \in Modes : StartRun(mode)
  \/ LocalCompletes
  \/ BackendFails
  \/ BackendCompletes
  \/ \E t \in PoolIds(RunIds) : PollTick(t)
  \/ Unmount

ServicesIdle == InitRegisterIdle /\ InitTwinIdle /\ InitPlannerIdle

(***************************************************************************)
(* Specifications: one per part of the server, the others at rest          *)
(***************************************************************************)
ComponentsIdle == InitLOIIdle /\ InitFuelIdle /\ InitHohmannIdle /\ ServicesIdle
ServerIdle == InitStorageIdle /\ InitPlanIdle /\ InitEngineIdle /\ InitLambertIdle

StorageStart ==
  InitStorage /\ InitPlanIdle /\ InitEngineIdle /\ InitLambertIdle /\ ComponentsIdle
SpecStorage == StorageStart /\ [][NextStorage]_vars

PlanStart ==
  InitStorageIdle /\ InitPlan /\ InitEngineIdle /\ InitLambertIdle /\ ComponentsIdle
SpecPlan == PlanStart /\ [][NextPlan]_vars

EngineStart ==
  InitStorageIdle /\ InitPlanIdle /\ InitEngine /\ InitLambertIdle /\ ComponentsIdle
SpecEngine == EngineStart /\ [][NextEngine]_vars

LambertStart ==
  InitStorageIdle /\ InitPlanIdle /\ InitEngineIdle /\ InitLambert /\ ComponentsIdle
SpecLambert == LambertStart /\ [][NextLambert]_vars

LOIStart == ServerIdle /\ InitLOI /\ InitFuelIdle /\ InitHohmannIdle /\ ServicesIdle
SpecLOI == LOIStart /\ [][NextLOI]_vars

FuelStart == ServerIdle /\ InitLOIIdle /\ InitFuel /\ InitHohmannIdle /\ ServicesIdle
SpecFuel == FuelStart /\ [][NextFuel]_vars

HohmannStart == ServerIdle /\ InitLOIIdle /\ InitFuelIdle /\ InitHohmann /\ ServicesIdle
SpecHohmann == HohmannStart /\ [][NextHohmann]_vars

RegisterStart ==
  ServerIdle /\ InitLOIIdle /\ InitFuelIdle /\ InitHohmannIdle
  /\ InitRegister /\ InitTwinIdle /\ InitPlannerIdle
SpecRegister == RegisterStart /\ [][NextRegister]_vars

TwinStart ==
  ServerIdle /\ InitLOIIdle /\ InitFuelIdle /\ InitHohmannIdle
  /\ InitRegisterIdle /\ InitTwin /\ InitPlannerIdle
SpecTwin == TwinStart /\ [][NextTwin]_vars

PlannerStart ==
  ServerIdle /\ InitLOIIdle /\ InitFuelIdle /\ InitHohmannIdle
  /\ InitRegisterIdle /\ InitTwinIdle /\ InitPlanner
SpecPlanner == PlannerStart /\ [][NextPlanner]_vars

Init ==
  InitStorage /\ InitPlan /\ InitEngine /\ InitLambert /\ InitLOI /\ InitFuel
  /\ InitHohmann /\ InitRegister /\ InitTwin /\ InitPlanner
Next ==
  NextStorage \/ NextPlan \/ NextEngine \/ NextLambert \/ NextLOI \/ NextFuel
  \/ NextHohmann \/ NextRegister \/ NextTwin \/ NextPlanner
Spec == Init /\ [][Next]_vars

(***************************************************************************)
(* Properties of setActiveTrajectory                                       *)
(***************************************************************************)
\* The trajectories of mission m the stored state shows active.
ActiveOf(rs, m) == getActiveTrajectoryForMission(rs, m)
AtMostOneActive(rs, m) == Cardinality(ActiveOf(rs, m)) <= 1

\* Caller c's call of setActiveTrajectory returns in this step.
Returns(c) == call[c].pc # "returned" /\ call'[c].pc = "returned"

\* C1: when a call setActiveTrajectory(missionId, trajectoryId) returns, in
\* either storage and whatever was stored before, at most one trajectory of
\* the mission is active, and if it returned true the active one is
\* trajectoryId.
C1_AtMostOneActiveAfterCall ==
  [][\A c \in Callers :
       Returns(c) =>
         /\ AtMostOneActive(rows', call'[c].missionId)
         /\ call'[c].result = "true" =>
              ActiveOf(rows', call'[c].missionId) = {call'[c].trajectoryId}]_vars

\* A call has returned true for a mission that had two active trajectories.
C1_ReturnedTrueFromSeveralActive ==
  \E c \in Callers :
    /\ call[c].pc = "returned"
    /\ call[c].result = "true"
    /\ Cardinality(call[c].before) >= 2
    /\ ActiveOf(rows, call[c].missionId) = {call[c].trajectoryId}

\* The callers whose call on mission m has returned, and those still in it.
ReturnedOn(m) == {c \in Callers : call[c].result # "none" /\ call[c].missionId = m}
InFlightOn(m) == {c \in Callers : InFlight(c) /\ call[c].missionId = m}

\* Every call made on m so far names a trajectory of m.
NamesTrajectoriesOf(m) ==
  \A c \in ReturnedOn(m) \cup InFlightOn(m) :
    call[c].trajectoryId \in RowsOfMission(DbState, m)

\* All the calls on m have finished and exactly one of the requested
\* trajectories is active.
OneRequestedActive(m) ==
  (InFlightOn(m) = {} /\ ReturnedOn(m) # {} /\ NamesTrajectoriesOf(m)) =>
    \E c \in ReturnedOn(m) : ActiveOf(rows, m) = {call[c].trajectoryId}

ResultFields ==
  {"thrown", "totalDeltaV", "flightTime", "fuelMass", "efficiency",
   "trajectoryPoints", "orbitalElements", "riskFactors", "calculations"}
CompleteResult(r) == r.thrown = "none" /\ DOMAIN r = ResultFields
FailedResult(r) == r.thrown # "none" /\ DOMAIN r = {"thrown"}

\* The engine has answered the planning request.
EngineAnswered == planResult # NotYet

CompleteOrFailed ==
  /\ EngineAnswered => CompleteResult(planResult) \/ FailedResult(planResult)
  /\ planRaised \notin {"pending", "none"} => planResult.thrown = planRaised
  /\ (planPc = "done" /\ planStatus # 201) => stored = <<>>

\* C4: generateEarthMoonTrajectory returns a complete TrajectoryResult or
\* throws and returns nothing; what the Lambert solver, the patched-conic
\* model or the fuel optimizer throws is what the engine throws; the route
\* calls createTrajectory only once the engine has returned a result, and a
\* request that fails stores no record.
C4_CompleteOrFailed ==
  [][/\ CompleteOrFailed'
     /\ stored' # stored => CompleteResult(planResult)]_vars

\* A planning request whose Lambert solution failed has been answered and
\* has stored nothing.
C4_SolverFailureAnswered ==
  /\ planPc = "done"
  /\ planRaised = "NoConvergence"
  /\ planResult = [thrown |-> "NoConvergence"]
  /\ stored = <<>>

\* The errors with which the engine rejects a request as invalid or
\* physically impossible.
EngineRejections ==
  {"InvalidLaunchDate", "MissionTimeTooShort", "MissionTimeTooLong",
   "InvalidTransferType", "TimeTooShort"}

\* C5: the planning route answers 400 when the body fails validation or the
\* engine rejects the request as invalid or physically impossible, 404 when
\* the mission does not exist, and 500 for no such failure.
C5_StatusMapping ==
  planPc = "done" =>
    /\ validated.thrown # "none" => planStatus = 400
    /\ (validated.thrown = "none" /\ planReq.missionId \notin ExistingMissions) =>
         planStatus = 404
    /\ (EngineAnswered /\ planResult.thrown \in EngineRejections) => planStatus = 400
    /\ planStatus = 500 =>
         EngineAnswered /\ planResult.thrown \notin EngineRejections \cup {"none"}

(***************************************************************************)
(* Properties of calculateEarthMoonTransfer                                *)
(***************************************************************************)
TransferReturned == patchedConic.thrown = "none"

\* C6: calculateEarthMoonTransfer returns a totalDeltaV between 3.8 and
\* 4.2 km/s.
C6_TotalDeltaVInRange ==
  TransferReturned =>
    /\ FGe(patchedConic.totalDeltaV, Dec(38, -1))
    /\ FLe(patchedConic.totalDeltaV, Dec(42, -1))

\* C7: calculateEarthMoonTransfer returns energy_balance_check = true.
C7_EnergyBalanceCheckTrue ==
  TransferReturned => patchedConic.patchedConicDetails.energy_balance_check = TRUE

(***************************************************************************)
(* Properties of LambertSolver.solve                                       *)
(***************************************************************************)
\* solve has made its entry checks.
Entered == lamPc # "entry" /\ lamPc # "idle"

\* The position magnitudes, the time of flight and mu pass their checks.
ValidRequest ==
  /\ FGe(lamEntry.r1_mag, Dec(1, -6))
  /\ FGe(lamEntry.r2_mag, Dec(1, -6))
  /\ FGt(lamIn.timeOfFlight, Zero)
  /\ FGt(lamIn.mu, Zero)

\* and so do the chord and lambda.
ValidGeometry ==
  /\ ValidRequest
  /\ FGe(lamEntry.c, Dec(1, -6))
  /\ FLt(MathAbs(lamEntry.lambda), One)

PassesEntryChecks ==
  /\ ValidGeometry
  /\ FGe(lamEntry.T, lamEntry.T_min)
  /\ lamIn.multiRevs = 0

\* C8: for an input that passes the entry checks solve does not fail to
\* converge: the iteration reaches |F| < 1e-14 within 30 passes and the
\* determinant f*gdot - fdot*g is 1 within 1e-8.
C8_ConvergesWithin30 ==
  (lamPc = "done" /\ PassesEntryChecks) =>
    /\ lamSt.converged
    /\ lamSt.iterations <= 30
    /\ lamOut.thrown = "none"
    /\ FLe(MathAbs(FSub(lamOut.determinant, One)), Dec(1, -8))

\* C9: solve throws the degenerate-problem error and returns nothing
\* whenever the chord is below 1e-6 km while the position magnitudes are at
\* least 1e-6 km and the time of flight and mu are positive.
C9_DegenerateChord ==
  (Entered /\ ValidRequest /\ FLt(lamEntry.c, Dec(1, -6))) =>
    /\ lamPc = "done"
    /\ lamOut = [thrown |-> "DegenerateLambert"]

\* solve(r1 = (7000,0,0), r2 = (7000,0,0), 3600, mu_Earth) has thrown the
\* degenerate-problem error.
C9_EqualPositionsRejected ==
  /\ lamIn.r1 = Vec(Num(7000), Zero, Zero)
  /\ lamIn.r2 = Vec(Num(7000), Zero, Zero)
  /\ lamIn.timeOfFlight = Num(3600)
  /\ lamIn.mu = MU_EARTH
  /\ lamOut = [thrown |-> "DegenerateLambert"]

\* C10: for multiRevs = 0 and valid geometry solve throws the
\* time-too-short error exactly when the normalised time is below T_min,
\* and it throws it before any pass of the Householder loop.
C10_TimeTooShortIffBelowMinimum ==
  (lamPc = "done" /\ ValidGeometry /\ lamIn.multiRevs = 0) =>
    /\ lamOut.thrown = "TimeTooShort" <=> FLt(lamEntry.T, lamEntry.T_min)
    /\ lamOut.thrown = "TimeTooShort" => lamSt = NotYet

\* A single-revolution request with valid geometry and a normalised time
\* below T_min has been rejected with no pass of the loop made.
C10_ShortTimeRejected ==
  /\ lamPc = "done"
  /\ ValidGeometry
  /\ lamIn.multiRevs = 0
  /\ FLt(lamEntry.T, lamEntry.T_min)
  /\ lamOut = [thrown |-> "TimeTooShort"]
  /\ lamSt = NotYet

\* The ranges the description gives calculateOptimalLOI: v_infinity in
\* (0, 5] km/s and r_target in [R_moon, 10 R_moon].
InVelocityRange == FGt(loiIn.v_infinity, Zero) /\ FLe(loiIn.v_infinity, Num(5))
InRadiusRange ==
  /\ FGe(loiIn.r_target, MOON_RADIUS)
  /\ FLe(loiIn.r_target, FMul(MOON_RADIUS, Num(10)))
OutOfRangeErrors == {"VelocityOutOfRange", "TargetRadiusOutOfRange"}
LOIReturned == loiOut # NotYet

\* C11: calculateOptimalLOI fails with the out-of-range error exactly when
\* v_infinity is not in (0, 5] or r_target is not in [1737, 17370]; every
\* input inside both ranges, the end points of the r_target interval
\* included, passes the range check.
C11_OutOfRangeExactlyOutsideRanges ==
  LOIReturned =>
    (loiOut.thrown \in OutOfRangeErrors <=> ~(InVelocityRange /\ InRadiusRange))

\* C12: for every valid input calculateOptimalLOI returns an LOIResult whose
\* strategy is 'capture_orbit' exactly when the capture-orbit total is
\* strictly below the direct total, 'direct' otherwise, and whose totalDeltaV
\* is the minimum of the two totals.
C12_LowerTotalSelected ==
  (LOIReturned /\ InVelocityRange /\ InRadiusRange
     /\ loiOut.thrown \notin OutOfRangeErrors) =>
    /\ loiOut.thrown = "none"
    /\ loiOut.strategy = "capture_orbit" <=>
         FLt(CallCapture.totalDeltaV, CallDirect.totalDeltaV)
    /\ loiOut.strategy \in {"capture_orbit", "direct"}
    /\ loiOut.totalDeltaV = MathMin(CallCapture.totalDeltaV, CallDirect.totalDeltaV)

\* The arguments FuelOptimizer.calculate is described to accept: deltaV in
\* [0, 20] km/s, dryMass > 0, Isp > 0 and thrustToWeight in (0, 2.0], all
\* four finite.
FuelArgumentsFinite ==
  /\ isFinite(fuelIn.deltaV)
  /\ isFinite(fuelIn.dryMass)
  /\ isFinite(fuelIn.specificImpulse)
  /\ isFinite(fuelIn.thrustToWeightRatio)
FuelMassesValid ==
  /\ FGt(fuelIn.dryMass, Zero) /\ isFinite(fuelIn.dryMass)
  /\ FGt(fuelIn.specificImpulse, Zero) /\ isFinite(fuelIn.specificImpulse)
  /\ FGt(fuelIn.thrustToWeightRatio, Zero)
  /\ FLe(fuelIn.thrustToWeightRatio, Two)
FuelArgumentsInvalid ==
  \/ FLt(fuelIn.deltaV, Zero)
  \/ FGt(fuelIn.deltaV, Num(20))
  \/ FLe(fuelIn.dryMass, Zero)
  \/ FLe(fuelIn.specificImpulse, Zero)
  \/ FLe(fuelIn.thrustToWeightRatio, Zero)
  \/ FGt(fuelIn.thrustToWeightRatio, Two)
  \/ ~FuelArgumentsFinite
FuelEntryErrors ==
  {"DeltaVNegative", "DeltaVTooLarge", "DryMassInvalid", "SpecificImpulseInvalid",
   "ThrustToWeightInvalid", "VelocityNotFinite"}
FuelCalled == fuelOut # NotYet
FuelRecordReturned == FuelCalled /\ fuelOut.thrown = "none"

\* C13: FuelOptimizer.calculate returns no result and fails at entry
\* whenever deltaV < 0, deltaV > 20, dryMass <= 0, Isp <= 0,
\* thrustToWeight <= 0, thrustToWeight > 2.0 or an argument is not finite.
C13_InvalidArgumentsRejectedAtEntry ==
  (FuelCalled /\ FuelArgumentsInvalid) => fuelOut.thrown \in FuelEntryErrors

\* C14: for valid dryMass, Isp and thrustToWeight, calculate(0, dryMass,
\* Isp, thrustToWeight) succeeds with massRatio = 1, propellantMass = 0 and
\* burnTime = 0.
C14_ZeroDeltaVNeedsNoPropellant ==
  (FuelCalled /\ FuelMassesValid /\ FCmp(fuelIn.deltaV, Zero) = 0) =>
    /\ fuelOut.thrown = "none"
    /\ FCmp(fuelOut.massRatio, One) = 0
    /\ FCmp(fuelOut.propellantMass, Zero) = 0
    /\ FCmp(fuelOut.burnTime, Zero) = 0

\* calculate(0, 5000, 450, 1.0), a call on the high-thrust path of the burn
\* time, has returned a record.
C14_ZeroDeltaVReturned ==
  /\ fuelIn = [deltaV |-> Zero, dryMass |-> Num(5000), specificImpulse |-> Num(450),
               thrustToWeightRatio |-> One]
  /\ FuelRecordReturned

\* C15: every record calculate returns has massRatio >= 1,
\* propellantMass >= 0, specificImpulse > 0 and burnTime >= 0, all finite,
\* also when the propellant mass is above 10 times the dry mass or the burn
\* time above one hour.
C15_RecordWithinRanges ==
  FuelRecordReturned =>
    /\ FGe(fuelOut.massRatio, One) /\ isFinite(fuelOut.massRatio)
    /\ FGe(fuelOut.propellantMass, Zero) /\ isFinite(fuelOut.propellantMass)
    /\ FGt(fuelOut.specificImpulse, Zero) /\ isFinite(fuelOut.specificImpulse)
    /\ FGe(fuelOut.burnTime, Zero) /\ isFinite(fuelOut.burnTime)

\* A HohmannResult as the description has it: two burns >= 0 and a
\* transfer time > 0.
HohmannResultInRange(h) ==
  /\ FGe(h.deltaV1, Zero)
  /\ FGe(h.deltaV2, Zero)
  /\ FGt(h.transferTime, Zero)
CalculateReturned == hohOut.calculate # NotYet
EarthMoonReturned == hohOut.earthMoon # NotYet /\ hohOut.earthMoon.thrown = "none"

\* C16: every HohmannResult has deltaV1 >= 0, deltaV2 >= 0 and
\* transferTime > 0: the result of calculate(r1, r2, mu) for positive
\* arguments, and the earthEscape and lunarCapture records of
\* calculateEarthMoonTransfer(), whose totalDeltaV is the sum of those burns.
C16_HohmannResultsInRange ==
  /\ CalculateReturned =>
       /\ hohOut.calculate.thrown = "none"
       /\ HohmannResultInRange(hohOut.calculate)
  /\ EarthMoonReturned =>
       /\ HohmannResultInRange(hohOut.earthMoon.earthEscape)
       /\ HohmannResultInRange(hohOut.earthMoon.lunarCapture)
       /\ hohOut.earthMoon.totalDeltaV =
            FAdd(hohOut.earthMoon.earthEscape.deltaV1,
                 FAdd(hohOut.earthMoon.lunarCapture.deltaV1,
                      hohOut.earthMoon.lunarCapture.deltaV2))

\* The mission time of the request is outside [0.1, 8760] hours.
MissionTimeOutside ==
  FLt(engineIn.flightTime, Dec(1, -1)) \/ FGt(engineIn.flightTime, Num(8760))
MissionTimeErrors == {"MissionTimeTooShort", "MissionTimeTooLong"}
ValidLaunchDate == ~isNaN(NewDate(engineIn.launchDate).time)

\* generateEarthMoonTrajectory has returned or thrown.
GenerateCalled == engineOut # NotYet

\* C17: validateMissionTime(hours) fails for hours < 0.1 and for
\* hours > 8760 and succeeds on [0.1, 8760], and for every transfer type
\* generateEarthMoonTrajectory with a valid launch date fails with that
\* error exactly for those flight times, before any computation.
C17_MissionTimeGuard ==
  /\ validateMissionTime(engineIn.flightTime) \in MissionTimeErrors <=> MissionTimeOutside
  /\ (GenerateCalled /\ ValidLaunchDate) =>
       (engineOut.thrown \in MissionTimeErrors <=> MissionTimeOutside)
  /\ (GenerateCalled /\ ValidLaunchDate /\ MissionTimeOutside) =>
       engineOut = [thrown |-> validateMissionTime(engineIn.flightTime)]

\* A request for 0.05 hours with a transfer type the engine does not accept
\* has been rejected for its mission time.
C17_ShortMissionRejected ==
  /\ engineIn = [launchDate |-> "2025-06-01T00:00:00.000Z", transferType |-> "custom",
                 flightTime |-> Dec(5, -2)]
  /\ engineOut = [thrown |-> "MissionTimeTooShort"]

\* generateEarthMoonTrajectory has returned a TrajectoryResult.
GenerateReturned == GenerateCalled /\ engineOut.thrown = "none"

\* The total delta-V the call achieved, before rounding, and the ratio of
\* the theoretical minimum (Hohmann, LEO radius to Earth-Moon distance) to
\* it, in percent.
AchievedTotalDeltaV == TransferBranch(engineIn.transferType, engineIn.flightTime).totalDeltaV
EfficiencyRatio ==
  FMul(FDiv(TheoreticalMinimum(MU_EARTH, FAdd(EARTH_RADIUS, EARTH_LOW_ORBIT),
                               EARTH_MOON_DISTANCE,
                               FDiv(FAdd(FAdd(EARTH_RADIUS, EARTH_LOW_ORBIT),
                                         EARTH_MOON_DISTANCE), Two)),
            AchievedTotalDeltaV),
       Num(100))
ClampedTo100(x) ==
  IF FLt(x, Zero) THEN Zero ELSE IF FGt(x, Num(100)) THEN Num(100) ELSE x
RoundedToTenth(x) == FDiv(MathRound(FMul(x, Num(10))), Num(10))

\* C18: the efficiency of every TrajectoryResult is a finite number in
\* [0, 100]: theoretical minimum / achieved total delta-V * 100 clamped to
\* that interval (in the result, to one decimal), for every transfer type
\* accepted and also when the achieved total is 0.
C18_EfficiencyClamped ==
  GenerateReturned =>
    /\ isFinite(engineOut.efficiency)
    /\ FGe(engineOut.efficiency, Zero)
    /\ FLe(engineOut.efficiency, Num(100))
    /\ engineOut.efficiency = RoundedToTenth(ClampedTo100(EfficiencyRatio))

\* A bi_elliptic request, whose achieved total delta-V is 0, has returned
\* efficiency 100.
C18_ZeroTotalReturned ==
  /\ engineIn.transferType = "bi_elliptic"
  /\ GenerateReturned
  /\ AchievedTotalDeltaV = Zero
  /\ FCmp(engineOut.efficiency, Num(100)) = 0

\* The branch the call took, and the rocket-equation propellant mass
\* dryMass * (exp(deltaV / (Isp * g0)) - 1) for its unrounded total delta-V.
BranchTaken == TransferBranch(engineIn.transferType, engineIn.flightTime)
UnroundedPropellantMass ==
  FMul(SPACECRAFT_DRY_MASS,
       FSub(MathExp(FDiv(kmPerSecToMPerSec(AchievedTotalDeltaV),
                         FMul(SPECIFIC_IMPULSE, g0))),
            One))
RoundedToThousandth(x) == FDiv(MathRound(FMul(x, Num(1000))), Num(1000))

\* C19: rounding is applied once, at the output: in every TrajectoryResult
\* fuelMass is the unrounded rocket-equation propellant mass rounded to the
\* nearest integer, totalDeltaV the unrounded total rounded to 3 decimals,
\* flightTime rounded to 1 decimal and efficiency rounded to 1 decimal.
C19_RoundedOnceAtOutput ==
  GenerateReturned =>
    /\ engineOut.fuelMass = MathRound(UnroundedPropellantMass)
    /\ engineOut.totalDeltaV = RoundedToThousandth(AchievedTotalDeltaV)
    /\ engineOut.flightTime = RoundedToTenth(BranchTaken.flightTime)
    /\ engineOut.efficiency = RoundedToTenth(ClampedTo100(EfficiencyRatio))

\* solveForX was called, and it returned x to solve.
SolverCalled == lamSt # NotYet
SolverErrors == {"NoConvergence", "DerivativeTooSmall"}
SolverReturned == lamPc = "done" /\ SolverCalled /\ lamOut.thrown \notin SolverErrors

\* |time(x, lambda) - T| < tolerance at the x the loop holds.
WithinTolerance ==
  FLt(MathAbs(FSub(calculateTime(lamSt.x, calculateY(lamSt.x, lamEntry.lambda)),
                   lamEntry.T)),
      tolerance)

\* At most 30 updates are made; x is returned only when it is within the
\* tolerance; the convergence error follows 30 updates none of whose tested
\* iterates was within it.
SolverBounded ==
  /\ SolverCalled => lamSt.iterations <= 30
  /\ SolverReturned => lamSt.converged /\ WithinTolerance
  /\ (lamPc = "done" /\ lamOut.thrown = "NoConvergence") =>
       lamSt.iterations = 30 /\ ~lamSt.converged

\* A step of a solver that was called makes one more update or none, and
\* leaves the problem as it is: the loop is not started again.
SolverNotRestarted ==
  SolverCalled =>
    /\ lamSt' # NotYet
    /\ lamSt'.iterations \in {lamSt.iterations, lamSt.iterations + 1}
    /\ lamSt'.iterations = lamSt.iterations + 1 \/ lamSt'.x = lamSt.x
    /\ lamEntry' = lamEntry

\* The steps solve can still take: the entry, then one per update left to
\* the loop, then the exit.
StepsLeft ==
  IF lamPc = "entry" THEN 32
  ELSE IF lamPc = "iterate"
    THEN (IF LoopRuns(lamSt, 30) THEN 31 - lamSt.iterations ELSE 1)
  ELSE 0

\* solve is at its entry, in the loop of solveForX or done, and every step
\* it takes leaves fewer steps to take.
SolverAdvances ==
  /\ lamPc \in {"entry", "iterate", "done"}
  /\ lamPc' \in {"entry", "iterate", "done"}
  /\ StepsLeft \in 0..32
  /\ StepsLeft' < StepsLeft

\* C20: solveForX always terminates: it makes at most 30 Householder
\* updates and then returns or fails; it returns x only if
\* |time(x, lambda) - T| < tolerance at that x, fails with the convergence
\* error when no tested iterate of the 30 passes was within the tolerance,
\* and is never restarted from another initial guess.
C20_SolverTerminates ==
  /\ []SolverBounded
  /\ [][SolverNotRestarted /\ SolverAdvances]_vars

\* The engine's request for 72 hours has failed with the convergence error
\* after 30 updates.
C20_ThirtyUpdatesThenFailed ==
  /\ lamIn.timeOfFlight = hoursToSeconds(Num(72))
  /\ lamPc = "done"
  /\ lamSt.iterations = 30
  /\ lamOut = [thrown |-> "NoConvergence"]

\* The iterate the loop holds is in [-1, 50], and the pass the loop makes
\* from it.
IterateInRange == FGe(lamSt.x, Num(-1)) /\ FLe(lamSt.x, Num(50))
NextPass == HouseholderPass(lamSt, lamEntry.lambda, lamEntry.T, tolerance)

\* C21: in the Householder iteration of solveForX every iterate, the
\* initial guess included, lies in [-1, 50], and each update changes x by
\* at most 0.5.
C21_IteratesBounded ==
  SolverCalled =>
    /\ IterateInRange
    /\ (lamPc = "iterate" /\ LoopRuns(lamSt, maxIterations)) =>
         FLe(MathAbs(FSub(NextPass.x, lamSt.x)), Half)

\* The result of a Hohmann request for the default 72 hours.
HohmannReference ==
  generateEarthMoonTrajectory(NewDate("2025-06-01T00:00:00.000Z"), "hohmann", Num(72))

\* C22: for 'hohmann' the caller's flight time is only validated: the
\* flightTime returned is the patched-conic total time and the whole
\* TrajectoryResult, risk factors included, is the same for every flight
\* time in [0.1, 8760]; for 'lambert' the caller's flight time, converted to
\* seconds for the solver, is returned (rounded) as flightTime.
C22_HohmannIgnoresFlightTime ==
  /\ (GenerateCalled /\ ValidLaunchDate /\ ~MissionTimeOutside
        /\ engineIn.transferType = "hohmann") =>
       /\ engineOut.thrown = "none"
       /\ engineOut = HohmannReference
       /\ engineOut.flightTime = RoundedToTenth(calculateEarthMoonTransfer.totalTime)
       /\ calculateEarthMoonTransfer.totalTime =
            FAdd(calculateEarthMoonTransfer.earthEscape.transferTime,
                 calculateEarthMoonTransfer.lunarCapture.transferTime)
  /\ (GenerateReturned /\ engineIn.transferType = "lambert") =>
       /\ engineOut.flightTime = RoundedToTenth(engineIn.flightTime)
       /\ engineOut.calculations.lambertSolution =
            LambertSolver_solve(EngineR1, EngineR2,
                                FMul(engineIn.flightTime, Num(3600)),
                                MU_EARTH, TRUE, 0)

\* A Hohmann request for 8760 hours has returned a flight time of 168 hours.
C22_YearLongRequestReturned ==
  /\ engineIn.transferType = "hohmann"
  /\ engineIn.flightTime = Num(8760)
  /\ GenerateReturned
  /\ FCmp(engineOut.flightTime, Num(168)) = 0

\* C23: a call of setActiveTrajectory that returns false leaves the isActive
\* flag of every stored trajectory as it was when the call began: the
\* trajectories of the mission that were active are still active.
C23_FailedCallChangesNothing ==
  [][\A c \in Callers :
       (Returns(c) /\ call'[c].result = "false") =>
         ActiveOf(rows', call'[c].missionId) = call'[c].before]_vars

\* C28: a step of setActiveTrajectory(missionId, trajectoryId) changes no
\* isActive flag of a trajectory of another mission, creates and removes no
\* trajectory, and changes no field other than isActive, whether the call
\* returns true or false.
C28_OtherMissionsUntouched ==
  [][/\ DOMAIN rows' = DOMAIN rows
     /\ \A t \in DOMAIN rows : rows'[t].missionId = rows[t].missionId
     /\ \A t \in DOMAIN rows :
          rows'[t] # rows[t] =>
            \E c \in Callers : InFlight(c) /\ call[c].missionId = rows[t].missionId]_vars

\* A call on one mission has returned, having changed a flag of that
\* mission, while a trajectory of another mission is still active.
C28_ReturnedBesideActiveMission ==
  \E c \in Callers, t \in DOMAIN rows :
    /\ call[c].pc = "returned"
    /\ call[c].before # ActiveOf(rows, call[c].missionId)
    /\ rows[t].missionId # call[c].missionId
    /\ rows[t].isActive

\* C24: every TrajectoryResult generateEarthMoonTrajectory returns, for each
\* transfer type it accepts, has at least one trajectory point, a total
\* delta-V greater than 0 and a hohmannTransfer or a lambertSolution among
\* its calculations.
C24_ResultFromComputation ==
  (GenerateReturned /\ engineIn.transferType \in validTypes) =>
    /\ engineOut.trajectoryPoints > 0
    /\ FGt(engineOut.totalDeltaV, Zero)
    /\ \/ engineOut.calculations.hohmannTransfer # Undefined
       \/ engineOut.calculations.lambertSolution # Undefined

\* The periapsis the capture-orbit strategy of the call is evaluated with,
\* and the target energy, apoapsis radius and apoapsis speed it computes.
CapturePeriapsis ==
  PeriapsisOr(loiIn.r_periapsis, getOptimalPeriapsis(loiIn.v_infinity, loiIn.r_target))
CaptureEnergy == FDiv(FNeg(MU_MOON), FMul(Two, loiIn.r_target))
CaptureApoapsis == FSub(FDiv(MU_MOON, FMul(Two, CaptureEnergy)), CapturePeriapsis)
CaptureApoapsisSpeed ==
  MathSqrt(FMul(Two, FAdd(CaptureEnergy, FDiv(MU_MOON, CaptureApoapsis))))
CaptureEccentricity ==
  FDiv(FSub(CaptureApoapsis, CapturePeriapsis), FAdd(CaptureApoapsis, CapturePeriapsis))

\* C25: in the capture-orbit strategy of calculateOptimalLOI, for every valid
\* v_infinity and r_target and every periapsis it is evaluated with, the
\* apoapsis radius is positive and not below the periapsis, the apoapsis
\* speed is a real number, the eccentricity is in [0, 1), and the default
\* periapsis is at least MOON_RADIUS + 15.
C25_CaptureOrbitWellFormed ==
  (loiOut # NotYet /\ InVelocityRange /\ InRadiusRange
     /\ (loiIn.r_periapsis.defined => FGt(loiIn.r_periapsis.value, Zero))) =>
    /\ FGt(CaptureApoapsis, Zero)
    /\ FGe(CaptureApoapsis, CapturePeriapsis)
    /\ ~isNaN(CaptureApoapsisSpeed)
    /\ FGe(CaptureEccentricity, Zero) /\ FLt(CaptureEccentricity, One)
    /\ FGe(getOptimalPeriapsis(loiIn.v_infinity, loiIn.r_target),
           FAdd(MOON_RADIUS, Num(15)))

\* The points the Hohmann branch asks generatePatchedConicTrajectoryPoints
\* for, and the lunar SOI radius it passes.
PatchedConicPath ==
  generatePatchedConicTrajectoryPoints(FAdd(EARTH_RADIUS, EARTH_LOW_ORBIT),
                                       EARTH_MOON_DISTANCE,
                                       calculateEarthMoonTransfer.lunarSOI, 100)
Separation(p, q) == magnitude(VecSubtract(p, q))

\* C29: the points of a Hohmann result are one connected path: there are
\* 101 of them, the first is (r_earth, 0, 0) to within a millimetre, the
\* last has x equal to the Earth-Moon distance, and the first point of the
\* lunar segment (the 82nd) lies on the same side of Earth as the last point
\* of the Earth-escape segment (the 81st), no further from it than the
\* radius of the lunar sphere of influence.
C29_PathConnected ==
  (GenerateReturned /\ engineIn.transferType = "hohmann") =>
    /\ engineOut.trajectoryPoints = 101
    /\ DOMAIN PatchedConicPath = 1 .. 101
    /\ FLe(Separation(PatchedConicPath[1],
                      Vector3D(FAdd(EARTH_RADIUS, EARTH_LOW_ORBIT), Zero, Zero)),
           Dec(1, -6))
    /\ FCmp(PatchedConicPath[101].x, EARTH_MOON_DISTANCE) = 0
    /\ PatchedConicPath[81].x.s = PatchedConicPath[82].x.s
    /\ FLe(Separation(PatchedConicPath[81], PatchedConicPath[82]),
           calculateEarthMoonTransfer.lunarSOI)

\* C26: InMemoryStorage and PostgresStorage, given the same calls, return
\* the same values and answer getTrajectoriesByMission and
\* getActiveTrajectoryForMission alike for every mission; after
\* deleteMission(id) has returned true both report no trajectory and no
\* active trajectory for id.
C26_StoragesEquivalent ==
  /\ lastOp.mem = lastOp.pg
  /\ \A m \in PoolIds(MissionPool) :
       /\ getTrajectoriesByMission(memStore.trajectories, m) =
            getTrajectoriesByMission(pgStore.trajectories, m)
       /\ getActiveTrajectoryForMission(memStore.trajectories, m) =
            getActiveTrajectoryForMission(pgStore.trajectories, m)
  /\ (lastOp.op = "deleteMission" /\ lastOp.mem = TRUE /\ lastOp.pg = TRUE) =>
       /\ getTrajectoriesByMission(memStore.trajectories, lastOp.arg) = {}
       /\ getTrajectoriesByMission(pgStore.trajectories, lastOp.arg) = {}

\* C27: under every interleaving of POST /api/register requests no two
\* stored users have the same username, and at most one request for a
\* username is answered 201.
C27_UsernamesUnique ==
  /\ \A u, v \in users : u.username = v.username => u = v
  /\ \A c, d \in Registrants :
       (reg[c].status = 201 /\ reg[d].status = 201
          /\ reg[c].username = reg[d].username) => c = d

\* C30: at most one polling timer is live at any time, and when no run is
\* under way and a run has finished, the only timer that can be live is the
\* one the last finished run started.
C30_OnePollingTimer ==
  /\ Cardinality(timers) <= 1
  /\ (run = NoRun /\ finished # <<>>) =>
       \A t \in timers : t = finished[Len(finished)]

=============================================================================
